---- MODULE Spec2Model ----
(***************************************************************************)
(* A model of the TOML parser of capyflow/aq (src/parse/toml/toml.go, the  *)
(* second, current definition of the package that starts at line 284).     *)
(*                                                                         *)
(* Text is a sequence of one-character strings; Go's 0-based indices and   *)
(* half-open slices are kept through At and Slice, so the index arithmetic *)
(* of the scanners reads as in the source.  The tree is a heap of nodes    *)
(* addressed by identifiers, because the parser works on pointers: the     *)
(* cursor p.cur is a pointer into the tree, and "the same node" is the     *)
(* same identifier.                                                        *)
(***************************************************************************)
EXTENDS Integers, Sequences, FiniteSets, TLC

(***************************************************************************)
(* Bounds of the model.                                                    *)
(***************************************************************************)
\* the largest number of physical lines of an input document
MaxLines == 4

\* the longest document when the lines exercise one function of the parser
MaxFnLines == 2

\* the longest document when a string value spans physical lines
MaxStrLines == 3

\* the longest path handed to Get
MaxPath == 2

(***************************************************************************)
(* Characters and the string functions of package strings.                 *)
(***************************************************************************)
DQ == "\""
SQ == "'"
BS == "\\"
NL == "\n"
TAB == "\t"
\* the backspace character U+0008, in caret notation
BSP == "^H"
\* the form feed character U+000C, in caret notation
FF == "^L"
DQ3 == <<DQ, DQ, DQ>>
SQ3 == <<SQ, SQ, SQ>>

\* s[i] with Go's 0-based index
At(s, i) == s[i + 1]

\* s[lo:hi] with Go's 0-based half-open bounds (the caller checks the bounds)
Slice(s, lo, hi) == SubSeq(s, lo + 1, hi)

\* the white space strings.TrimSpace removes
IsSpace(c) == c \in {" ", TAB, NL, "\r"}

SetMin(S) == CHOOSE x \in S : \A y \in S : x <= y

SetMax(S) == CHOOSE x \in S : \A y \in S : y <= x

TrimSpace(s) ==
  LET keep == {i \in 1..Len(s) : ~IsSpace(s[i])}
  IN  IF keep = {} THEN <<>> ELSE SubSeq(s, SetMin(keep), SetMax(keep))

HasPrefix(s, p) == Len(p) <= Len(s) /\ SubSeq(s, 1, Len(p)) = p

\* a suffix test that finds every suffix present
HasSuffixAlways(s, p) == TRUE

HasSuffix(s, p) == Len(p) <= Len(s) /\ SubSeq(s, Len(s) - Len(p) + 1, Len(s)) = p

Contains(s, p) == \E i \in 1..(Len(s) - Len(p) + 1) : SubSeq(s, i, i + Len(p) - 1) = p

\* strings.Index: the 0-based index of the first occurrence, -1 when absent
Index(s, p) ==
  LET hits == {i \in 0..(Len(s) - Len(p)) : SubSeq(s, i + 1, i + Len(p)) = p}
  IN  IF hits = {} THEN -1 ELSE SetMin(hits)

\* strings.ReplaceAll(s, c, "") for a one-character c
RemoveAll(s, c) == SelectSeq(s, LAMBDA x : x /= c)

(***************************************************************************)
(* The quote state the scanners carry: four flags, as in the source.       *)
(***************************************************************************)
NoQuote ==
  [inBasic |-> FALSE, inLiteral |-> FALSE, basicMulti |-> FALSE, literalMulti |-> FALSE]

\* i+2 < len(s) && s[i] == c && s[i+1] == c && s[i+2] == c
TripleAt(s, i, c) ==
  i + 2 < Len(s) /\ At(s, i) = c /\ At(s, i + 1) = c /\ At(s, i + 2) = c

(***************************************************************************)
(* stripCommentPreserveStrings: the text up to the first '#' outside       *)
(* every quoted region.                                                    *)
(***************************************************************************)
\* one turn of the loop at index st.i: st holds the index, the quote flags,
\* the builder b, and whether the loop has reached its break
stripStep(s, st) ==
  LET ch == At(s, st.i) IN
    IF st.q.inBasic THEN
      IF ch = BS /\ st.i + 1 < Len(s)
        THEN [st EXCEPT !.i = @ + 2, !.b = @ \o <<ch, At(s, st.i + 1)>>]
      ELSE IF st.q.basicMulti /\ TripleAt(s, st.i, DQ)
        THEN [st EXCEPT !.i = @ + 3, !.q.inBasic = FALSE, !.q.basicMulti = FALSE, !.b = @ \o DQ3]
      ELSE IF ~st.q.basicMulti /\ ch = DQ
        THEN [st EXCEPT !.i = @ + 1, !.q.inBasic = FALSE, !.b = Append(@, ch)]
      ELSE [st EXCEPT !.i = @ + 1, !.b = Append(@, ch)]
    ELSE IF st.q.inLiteral THEN
      IF st.q.literalMulti /\ TripleAt(s, st.i, SQ)
        THEN [st EXCEPT !.i = @ + 3, !.q.inLiteral = FALSE, !.q.literalMulti = FALSE, !.b = @ \o SQ3]
      ELSE IF ~st.q.literalMulti /\ ch = SQ
        THEN [st EXCEPT !.i = @ + 1, !.q.inLiteral = FALSE, !.b = Append(@, ch)]
      ELSE [st EXCEPT !.i = @ + 1, !.b = Append(@, ch)]
    ELSE IF ch = DQ THEN
      IF TripleAt(s, st.i, DQ)
        THEN [st EXCEPT !.i = @ + 3, !.q.inBasic = TRUE, !.q.basicMulti = TRUE, !.b = @ \o DQ3]
        ELSE [st EXCEPT !.i = @ + 1, !.q.inBasic = TRUE, !.q.basicMulti = FALSE, !.b = Append(@, ch)]
    ELSE IF ch = SQ THEN
      IF TripleAt(s, st.i, SQ)
        THEN [st EXCEPT !.i = @ + 3, !.q.inLiteral = TRUE, !.q.literalMulti = TRUE, !.b = @ \o SQ3]
        ELSE [st EXCEPT !.i = @ + 1, !.q.inLiteral = TRUE, !.q.literalMulti = FALSE, !.b = Append(@, ch)]
    ELSE IF ch = "#" THEN [st EXCEPT !.stop = TRUE]
    ELSE [st EXCEPT !.i = @ + 1, !.b = Append(@, ch)]

\* a scan that takes every '#' for the start of a comment
stripFromAnyHash(s, st) == IF Index(s, <<"#">>) < 0 THEN s ELSE Slice(s, 0, Index(s, <<"#">>))

RECURSIVE stripFrom(_, _)
stripFrom(s, st) ==
  IF st.i >= Len(s) \/ st.stop THEN st.b ELSE stripFrom(s, stripStep(s, st))

stripCommentPreserveStrings(s) ==
  stripFrom(s, [i |-> 0, q |-> NoQuote, b |-> <<>>, stop |-> FALSE])

(***************************************************************************)
(* The quote tracking shared, statement for statement, by                  *)
(* findUnquotedEqual and the two depth loops of consumeValue: one step at  *)
(* index i gives the next index, the next quote state, and whether s[i] is *)
(* a character outside every quoted region that the caller looks at.       *)
(***************************************************************************)
quoteStep(s, i, q) ==
  LET ch == At(s, i) IN
    IF q.inBasic THEN
      IF ch = BS THEN [i |-> i + 2, q |-> q, plain |-> FALSE]
      ELSE IF q.basicMulti THEN
        IF TripleAt(s, i, DQ)
          THEN [i |-> i + 3, q |-> [q EXCEPT !.inBasic = FALSE, !.basicMulti = FALSE], plain |-> FALSE]
          ELSE [i |-> i + 1, q |-> q, plain |-> FALSE]
      ELSE IF ch = DQ
        THEN [i |-> i + 1, q |-> [q EXCEPT !.inBasic = FALSE], plain |-> FALSE]
      ELSE [i |-> i + 1, q |-> q, plain |-> FALSE]
    ELSE IF q.inLiteral THEN
      IF q.literalMulti THEN
        IF TripleAt(s, i, SQ)
          THEN [i |-> i + 3, q |-> [q EXCEPT !.inLiteral = FALSE, !.literalMulti = FALSE], plain |-> FALSE]
          ELSE [i |-> i + 1, q |-> q, plain |-> FALSE]
      ELSE IF ch = SQ
        THEN [i |-> i + 1, q |-> [q EXCEPT !.inLiteral = FALSE], plain |-> FALSE]
      ELSE [i |-> i + 1, q |-> q, plain |-> FALSE]
    ELSE IF ch = DQ THEN
      IF TripleAt(s, i, DQ)
        THEN [i |-> i + 3, q |-> [q EXCEPT !.inBasic = TRUE, !.basicMulti = TRUE], plain |-> FALSE]
        ELSE [i |-> i + 1, q |-> [q EXCEPT !.inBasic = TRUE], plain |-> FALSE]
    ELSE IF ch = SQ THEN
      IF TripleAt(s, i, SQ)
        THEN [i |-> i + 3, q |-> [q EXCEPT !.inLiteral = TRUE, !.literalMulti = TRUE], plain |-> FALSE]
        ELSE [i |-> i + 1, q |-> [q EXCEPT !.inLiteral = TRUE], plain |-> FALSE]
    ELSE [i |-> i + 1, q |-> q, plain |-> TRUE]

\* a scan that takes the first '=' of the line, quoted or not
findEqualAny(s, i, q) == Index(s, <<"=">>)

RECURSIVE findEqualFrom(_, _, _)
findEqualFrom(s, i, q) ==
  IF i >= Len(s) THEN -1
  ELSE LET st == quoteStep(s, i, q) IN
    IF st.plain /\ At(s, i) = "=" THEN i ELSE findEqualFrom(s, st.i, st.q)

\* the 0-based index of the first '=' outside every quoted region, or -1
findUnquotedEqual(s) == findEqualFrom(s, 0, NoQuote)

(***************************************************************************)
(* The depth loop of consumeValue over one physical line: st is the depth  *)
(* and the quote state carried from the lines before.                      *)
(***************************************************************************)
RECURSIVE depthScan(_, _, _)
depthScan(s, i, st) ==
  IF i >= Len(s) THEN st
  ELSE LET n == quoteStep(s, i, st.q)
           ch == At(s, i)
           d == IF ~n.plain THEN st.depth
                ELSE IF ch = "[" \/ ch = "{" THEN st.depth + 1
                ELSE IF ch = "]" \/ ch = "}" THEN st.depth - 1
                ELSE st.depth
       IN depthScan(s, n.i, [depth |-> d, q |-> n.q])

(***************************************************************************)
(* parseKeyParts: the segments of a key expression.  inQuote is "" for     *)
(* Go's byte(0).  The result is [err, parts]; err = "" is a nil error.     *)
(***************************************************************************)
RECURSIVE keyPartsFrom(_, _, _, _, _, _)
keyPartsFrom(s, i, inQuote, escape, cur, parts) ==
  IF i >= Len(s) THEN
    IF inQuote /= "" THEN [err |-> "unterminated quoted key", parts |-> <<>>]
    ELSE LET last == TrimSpace(cur)
         IN  [err |-> "", parts |-> IF last /= <<>> THEN Append(parts, last) ELSE parts]
  ELSE LET ch == At(s, i) IN
    IF inQuote /= "" THEN
      IF inQuote = DQ /\ ch = BS /\ ~escape
        THEN keyPartsFrom(s, i + 1, inQuote, TRUE, cur, parts)
      ELSE IF escape
        THEN keyPartsFrom(s, i + 1, inQuote, FALSE, Append(cur, ch), parts)
      ELSE IF ch = inQuote
        THEN keyPartsFrom(s, i + 1, "", escape, cur, parts)
      ELSE keyPartsFrom(s, i + 1, inQuote, escape, Append(cur, ch), parts)
    ELSE IF ch = DQ \/ ch = SQ THEN
      IF Len(cur) /= 0 /\ TrimSpace(cur) /= <<>>
        THEN [err |-> "invalid quoted key position", parts |-> <<>>]
        ELSE keyPartsFrom(s, i + 1, ch, escape, <<>>, parts)
    ELSE IF ch = "." THEN
      LET part == TrimSpace(cur)
      IN  keyPartsFrom(s, i + 1, inQuote, escape, <<>>,
                       IF part /= <<>> THEN Append(parts, part) ELSE parts)
    ELSE keyPartsFrom(s, i + 1, inQuote, escape, Append(cur, ch), parts)

parseKeyParts(s) == keyPartsFrom(s, 0, "", FALSE, <<>>, <<>>)

(***************************************************************************)
(* splitTopLevel(s, ','): the pieces of s between the separators that lie  *)
(* outside quotes and at bracket depth zero, each trimmed.                 *)
(***************************************************************************)
\* one turn of the loop at index sp.i: sp holds the index, the quote flags,
\* the two depths, the piece being built and the pieces built
splitStep(s, sp) ==
  LET ch == At(s, sp.i) IN
    IF sp.q.inBasic THEN
      IF ch = BS THEN
        [sp EXCEPT !.i = @ + 2,
                   !.cur = IF sp.i + 1 < Len(s) THEN @ \o <<BS, At(s, sp.i + 1)>> ELSE @]
      ELSE IF sp.q.basicMulti /\ TripleAt(s, sp.i, DQ) THEN
        [sp EXCEPT !.i = @ + 3, !.q.inBasic = FALSE, !.q.basicMulti = FALSE, !.cur = @ \o DQ3]
      ELSE IF ~sp.q.basicMulti /\ ch = DQ THEN
        [sp EXCEPT !.i = @ + 1, !.q.inBasic = FALSE, !.cur = Append(@, ch)]
      ELSE [sp EXCEPT !.i = @ + 1, !.cur = Append(@, ch)]
    ELSE IF sp.q.inLiteral THEN
      IF sp.q.literalMulti /\ TripleAt(s, sp.i, SQ) THEN
        [sp EXCEPT !.i = @ + 3, !.q.inLiteral = FALSE, !.q.literalMulti = FALSE, !.cur = @ \o SQ3]
      ELSE IF ~sp.q.literalMulti /\ ch = SQ THEN
        [sp EXCEPT !.i = @ + 1, !.q.inLiteral = FALSE, !.cur = Append(@, ch)]
      ELSE [sp EXCEPT !.i = @ + 1, !.cur = Append(@, ch)]
    ELSE IF ch = DQ THEN
      IF TripleAt(s, sp.i, DQ)
        THEN [sp EXCEPT !.i = @ + 3, !.q.inBasic = TRUE, !.q.basicMulti = TRUE, !.cur = @ \o DQ3]
        ELSE [sp EXCEPT !.i = @ + 1, !.q.inBasic = TRUE, !.cur = Append(@, ch)]
    ELSE IF ch = SQ THEN
      IF TripleAt(s, sp.i, SQ)
        THEN [sp EXCEPT !.i = @ + 3, !.q.inLiteral = TRUE, !.q.literalMulti = TRUE, !.cur = @ \o SQ3]
        ELSE [sp EXCEPT !.i = @ + 1, !.q.inLiteral = TRUE, !.cur = Append(@, ch)]
    ELSE IF ch = "[" THEN [sp EXCEPT !.i = @ + 1, !.depthB = @ + 1, !.cur = Append(@, ch)]
    ELSE IF ch = "]" THEN [sp EXCEPT !.i = @ + 1, !.depthB = @ - 1, !.cur = Append(@, ch)]
    ELSE IF ch = "{" THEN [sp EXCEPT !.i = @ + 1, !.depthC = @ + 1, !.cur = Append(@, ch)]
    ELSE IF ch = "}" THEN [sp EXCEPT !.i = @ + 1, !.depthC = @ - 1, !.cur = Append(@, ch)]
    ELSE IF sp.depthB = 0 /\ sp.depthC = 0 /\ ch = ","
      THEN [sp EXCEPT !.i = @ + 1, !.cur = <<>>, !.parts = Append(@, TrimSpace(sp.cur))]
    ELSE [sp EXCEPT !.i = @ + 1, !.cur = Append(@, ch)]

RECURSIVE splitFrom(_, _)
splitFrom(s, sp) ==
  IF sp.i >= Len(s) THEN
    IF Len(sp.cur) > 0 THEN Append(sp.parts, TrimSpace(sp.cur)) ELSE sp.parts
  ELSE splitFrom(s, splitStep(s, sp))

splitTopLevel(s) ==
  splitFrom(s, [i |-> 0, q |-> NoQuote, depthB |-> 0, depthC |-> 0, cur |-> <<>>, parts |-> <<>>])

(***************************************************************************)
(* Nodes.  kind is the Go type of the node: Table, Array or Value; type     *)
(* and v are Value.Type and Value.V; items is Table.Items and elems is     *)
(* Array.Elems.  In a parsed value (a tree not yet linked into the         *)
(* document) items and elems hold nodes; in the heap they hold node        *)
(* identifiers.  lit records that an Array was built by parseArrayToken.   *)
(***************************************************************************)
NoItems == [k \in {} |-> 0]

NewTable == [kind |-> "Table", type |-> "table", v |-> <<>>, items |-> NoItems, elems |-> <<>>, lit |-> FALSE]

NewArray(es, fromToken) ==
  [kind |-> "Array", type |-> "array", v |-> <<>>, items |-> NoItems, elems |-> es, lit |-> fromToken]

NewValue(type, v) ==
  [kind |-> "Value", type |-> type, v |-> v, items |-> NoItems, elems |-> <<>>, lit |-> FALSE]

\* Node.Kind(): "table" for a Table, "array" for an Array, Value.Type for a Value
Kind(n) == IF n.kind = "Table" THEN "table" ELSE IF n.kind = "Array" THEN "array" ELSE n.type

\* a map assignment that forgets the other keys of the Table
BindOnly(items, k, x) == [j \in {k} |-> x]

\* t.Items[k] = x
Bind(items, k, x) == [j \in DOMAIN items \cup {k} |-> IF j = k THEN x ELSE items[j]]

(***************************************************************************)
(* Results of the value functions: err = "" is a nil error; panic marks a  *)
(* run-time panic (index or slice bounds out of range).                    *)
(***************************************************************************)
Ok(n) == [err |-> "", panic |-> FALSE, node |-> n]

Fail(msg) == [err |-> msg, panic |-> FALSE, node |-> NewTable]

Panics == [err |-> "panic", panic |-> TRUE, node |-> NewTable]

(***************************************************************************)
(* Scalars.  Literals are matched by shape: D a decimal digit, any other   *)
(* pattern character itself.  time.Parse's range checks (month, hour) and  *)
(* fractional seconds are outside the literals the model reads.            *)
(***************************************************************************)
Digits == {"0", "1", "2", "3", "4", "5", "6", "7", "8", "9"}

DigitVal(c) ==
  CASE c = "0" -> 0 [] c = "1" -> 1 [] c = "2" -> 2 [] c = "3" -> 3 [] c = "4" -> 4
    [] c = "5" -> 5 [] c = "6" -> 6 [] c = "7" -> 7 [] c = "8" -> 8 [] c = "9" -> 9
    [] c \in {"a", "A"} -> 10 [] c \in {"b", "B"} -> 11 [] c \in {"c", "C"} -> 12
    [] c \in {"d", "D"} -> 13 [] c \in {"e", "E"} -> 14 [] c \in {"f", "F"} -> 15
    [] OTHER -> 99

Shape(s, pat) ==
  /\ Len(s) = Len(pat)
  /\ \A i \in 1..Len(s) : IF pat[i] = "D" THEN s[i] \in Digits ELSE s[i] = pat[i]

DatePat == <<"D", "D", "D", "D", "-", "D", "D", "-", "D", "D">>

TimePat == <<"D", "D", ":", "D", "D", ":", "D", "D">>

\* time.Parse(time.RFC3339Nano, s) succeeds
isOffsetDatetime(s) ==
  \/ Shape(s, DatePat \o <<"T">> \o TimePat \o <<"Z">>)
  \/ Shape(s, DatePat \o <<"T">> \o TimePat \o <<"+", "D", "D", ":", "D", "D">>)
  \/ Shape(s, DatePat \o <<"T">> \o TimePat \o <<"-", "D", "D", ":", "D", "D">>)

\* parseLocalDateTimeVariants: the Value.Type of the first layout that parses, "" if none
parseLocalDateTimeVariants(s) ==
  IF Shape(s, DatePat \o <<"T">> \o TimePat) \/ Shape(s, DatePat \o <<" ">> \o TimePat)
    THEN "local_datetime"
  ELSE IF Shape(s, DatePat) THEN "local_date"
  ELSE IF Shape(s, TimePat) THEN "local_time"
  ELSE ""

(***************************************************************************)
(* 64-bit integers.  A uint64 or int64 is its bit pattern, NumLimbs limbs  *)
(* of LimbBits bits, the least significant first (an int64 in two's        *)
(* complement), so that the range checks of strconv and the wrap-around of *)
(* Go's conversions and products are those of the 64-bit width.            *)
(***************************************************************************)
BitSize == 64

LimbBits == 16

NumLimbs == BitSize \div LimbBits

LimbBase == 2 ^ LimbBits

Zero64 == [i \in 1..NumLimbs |-> 0]

\* u * base + d over the limbs of u from limb i on; carry is what leaves the
\* limbs below i, and the carry of the result is what leaves the top limb
RECURSIVE mulAdd(_, _, _, _, _)
mulAdd(u, i, base, carry, out) ==
  IF i > Len(u) THEN [n |-> out, carry |-> carry]
  ELSE mulAdd(u, i + 1, base, (u[i] * base + carry) \div LimbBase,
              Append(out, (u[i] * base + carry) % LimbBase))

\* int64(v) * -1: the two's complement of the pattern, wrapping at 64 bits
Negate64(u) == mulAdd([i \in 1..Len(u) |-> LimbBase - 1 - u[i]], 1, 1, 1, <<>>).n

\* the loop of strconv.ParseUint over the digits: over is set once the value
\* has left the 64 bits
RECURSIVE digitsValue(_, _, _)
digitsValue(s, base, acc) ==
  IF s = <<>> THEN acc
  ELSE IF acc.over THEN acc
  ELSE digitsValue(Tail(s), base,
                   [n |-> mulAdd(acc.n, 1, base, DigitVal(Head(s)), <<>>).n,
                    over |-> mulAdd(acc.n, 1, base, DigitVal(Head(s)), <<>>).carry /= 0])

\* the range error of strconv.ParseUint(s, base, 64)
rangeChecked(r) == IF r.over THEN [err |-> "value out of range", n |-> Zero64] ELSE [err |-> "", n |-> r.n]

\* strconv.ParseUint(s, base, 64)
ParseUint(s, base) ==
  IF s = <<>> \/ \E i \in 1..Len(s) : DigitVal(s[i]) >= base
    THEN [err |-> "invalid syntax", n |-> Zero64]
    ELSE rangeChecked(digitsValue(s, base, [n |-> Zero64, over |-> FALSE]))

\* un >= 1<<63, and un > 1<<63
AtLeastCutoff(u) == u[NumLimbs] >= LimbBase \div 2

AboveCutoff(u) ==
  \/ u[NumLimbs] > LimbBase \div 2
  \/ u[NumLimbs] = LimbBase \div 2 /\ \E i \in 1..(NumLimbs - 1) : u[i] /= 0

\* the sign and cutoff checks of strconv.ParseInt after ParseUint gave u
signedResult(neg, u) ==
  IF u.err /= "" THEN u
  ELSE IF ~neg /\ AtLeastCutoff(u.n) THEN [err |-> "value out of range", n |-> Zero64]
  ELSE IF neg /\ AboveCutoff(u.n) THEN [err |-> "value out of range", n |-> Zero64]
  ELSE [err |-> "", n |-> IF neg THEN Negate64(u.n) ELSE u.n]

\* strconv.ParseInt(s, 10, 64)
ParseInt(s) ==
  IF s = <<>> THEN [err |-> "invalid syntax", n |-> Zero64]
  ELSE signedResult(HasPrefix(s, <<"-">>),
                    ParseUint(IF HasPrefix(s, <<"-">>) \/ HasPrefix(s, <<"+">>) THEN Tail(s) ELSE s, 10))

\* return int64(v) * sign, nil
castResult(neg, u) ==
  IF u.err /= "" THEN u ELSE [err |-> "", n |-> IF neg THEN Negate64(u.n) ELSE u.n]

\* the body of the three prefix branches: sign, then ParseUint(s[2:], base, 64)
basedInt(s, base) ==
  LET neg == HasPrefix(s, <<"-">>)
      s1 == IF neg THEN Tail(s) ELSE s
      s2 == IF HasPrefix(s1, <<"+">>) THEN Tail(s1) ELSE s1
  IN  castResult(neg, ParseUint(Slice(s2, 2, Len(s2)), base))

hasBasePrefix(s, x) ==
  HasPrefix(s, <<"0", x>>) \/ HasPrefix(s, <<"-", "0", x>>) \/ HasPrefix(s, <<"+", "0", x>>)

parseIntToken(s0) ==
  LET s == RemoveAll(s0, "_") IN
    IF hasBasePrefix(s, "x") THEN basedInt(s, 16)
    ELSE IF hasBasePrefix(s, "o") THEN basedInt(s, 8)
    ELSE IF hasBasePrefix(s, "b") THEN basedInt(s, 2)
    ELSE ParseInt(s)

\* parseFloatToken succeeds: strconv.ParseFloat on [sign] digits [. digits]
isFloatToken(s0) ==
  LET s == RemoveAll(s0, "_")
      body == IF HasPrefix(s, <<"-">>) \/ HasPrefix(s, <<"+">>) THEN Tail(s) ELSE s
      dot == Index(body, <<".">>)
      ip == IF dot < 0 THEN body ELSE Slice(body, 0, dot)
      fp == IF dot < 0 THEN <<>> ELSE Slice(body, dot + 1, Len(body))
  IN  /\ Len(ip) + Len(fp) > 0
      /\ \A i \in 1..Len(ip) : ip[i] \in Digits
      /\ \A i \in 1..Len(fp) : fp[i] \in Digits

EqualFoldNan(s) == Len(s) = 3 /\ s[1] \in {"n", "N"} /\ s[2] \in {"a", "A"} /\ s[3] \in {"n", "N"}

(***************************************************************************)
(* Quoted strings.                                                         *)
(***************************************************************************)
extractTripleQuoted(s, quote) ==
  LET end == IF quote = SQ THEN SQ3 ELSE DQ3
      idx == Index(Slice(s, 3, Len(s)), end)
      content == Slice(s, 3, 3 + idx)
  IN  IF Len(s) < 6 \/ ~HasPrefix(s, end) \/ idx < 0 THEN [ok |-> FALSE, content |-> <<>>]
      ELSE [ok |-> TRUE,
            content |-> IF Len(content) > 0 /\ content[1] = NL THEN Tail(content) ELSE content]

extractSingleQuoted(s, quote) ==
  IF Len(s) < 2 \/ s[1] /= quote \/ s[Len(s)] /= quote
    THEN [ok |-> FALSE, content |-> <<>>]
    ELSE [ok |-> TRUE, content |-> Slice(s, 1, Len(s) - 1)]

\* the first pass of decodeBasicString(s, true): a backslash before a newline
\* removes the newline and the spaces and tabs after it
RECURSIVE foldLines(_, _, _)
foldLines(s, i, b) ==
  IF i >= Len(s) THEN b
  ELSE IF At(s, i) = BS /\ i + 1 < Len(s) /\ At(s, i + 1) = NL THEN
    LET after == {j \in (i + 2)..Len(s) : \A k \in (i + 2)..(j - 1) : At(s, k) \in {" ", TAB}}
    IN  foldLines(s, SetMax(after), b)
  ELSE foldLines(s, i + 1, Append(b, At(s, i)))

\* the character out.WriteRune writes for the code point of hex digits h: the
\* code points the model reads are U+0041 and U+0061, any other is written "?"
RuneOf(h) ==
  LET lead == SubSeq(h, 1, Len(h) - 2)
      tail2 == SubSeq(h, Len(h) - 1, Len(h))
  IN  IF (\A i \in 1..Len(lead) : lead[i] = "0") /\ tail2 = <<"4", "1">> THEN "A"
      ELSE IF (\A i \in 1..Len(lead) : lead[i] = "0") /\ tail2 = <<"6", "1">> THEN "a"
      ELSE "?"

RECURSIVE decodeEscapes(_, _, _)

\* a decoder that writes an escape it does not know as it stands
otherEscapeKept(s, i, out) == decodeEscapes(s, i + 2, out \o <<BS, At(s, i + 1)>>)

\* default: return "", errors.New("unsupported escape")
otherEscape(s, i, out) == [err |-> "unsupported escape", out |-> <<>>]

decodeEscapes(s, i, out) ==
  IF i >= Len(s) THEN [err |-> "", out |-> out]
  ELSE IF At(s, i) /= BS THEN decodeEscapes(s, i + 1, Append(out, At(s, i)))
  ELSE IF i + 1 >= Len(s) THEN [err |-> "invalid escape", out |-> <<>>]
  ELSE LET e == At(s, i + 1) IN
    IF e = "b" THEN decodeEscapes(s, i + 2, Append(out, BSP))
    ELSE IF e = "t" THEN decodeEscapes(s, i + 2, Append(out, TAB))
    ELSE IF e = "n" THEN decodeEscapes(s, i + 2, Append(out, NL))
    ELSE IF e = "f" THEN decodeEscapes(s, i + 2, Append(out, FF))
    ELSE IF e = "r" THEN decodeEscapes(s, i + 2, Append(out, "\r"))
    ELSE IF e = DQ THEN decodeEscapes(s, i + 2, Append(out, DQ))
    ELSE IF e = BS THEN decodeEscapes(s, i + 2, Append(out, BS))
    ELSE IF e = "u" \/ e = "U" THEN
      LET n == IF e = "u" THEN 4 ELSE 8 IN
        IF (i + 1) + n >= Len(s) THEN [err |-> "invalid unicode escape", out |-> <<>>]
        ELSE LET h == Slice(s, i + 2, i + 2 + n) IN
          IF \E k \in 1..n : DigitVal(h[k]) >= 16 THEN [err |-> "invalid syntax", out |-> <<>>]
          ELSE decodeEscapes(s, i + 2 + n, Append(out, RuneOf(h)))
    ELSE otherEscape(s, i, out)

decodeBasicString(s, multiline) ==
  decodeEscapes(IF multiline THEN foldLines(s, 0, <<>>) ELSE s, 0, <<>>)

(***************************************************************************)
(* parseValue and the two compound tokens it recurses into.  A parsed      *)
(* value is a tree of nodes.                                               *)
(***************************************************************************)
RECURSIVE parseValue(_)
RECURSIVE arrayElems(_, _, _)
RECURSIVE inlineBind(_, _, _, _)
RECURSIVE inlinePairs(_, _, _)

\* the loop of parseArrayToken over the split parts
arrayElems(parts, i, elems) ==
  IF i > Len(parts) THEN Ok(NewArray(elems, TRUE))
  ELSE IF TrimSpace(parts[i]) = <<>> THEN arrayElems(parts, i + 1, elems)
  ELSE LET r == parseValue(parts[i]) IN
    IF r.err /= "" THEN r
    ELSE IF Len(elems) /= 0 /\ Kind(r.node) /= Kind(elems[1]) THEN Fail("mixed-type array")
    ELSE arrayElems(parts, i + 1, Append(elems, r.node))

parseArrayToken(s) ==
  LET content == TrimSpace(stripCommentPreserveStrings(s)) IN
    IF ~HasPrefix(content, <<"[">>) THEN Fail("invalid array")
    ELSE IF 1 > Len(content) - 1 THEN Panics
    ELSE arrayElems(splitTopLevel(TrimSpace(Slice(content, 1, Len(content) - 1))), 1, <<>>)

\* an inline table in which a later pair replaces the binding of an earlier one
inlineDuplicateNever(items, last) == FALSE

\* _, exists := cur.Items[last]
inlineDuplicate(items, last) == last \in DOMAIN items

\* one pair of parseInlineTableToken from segment i of its key on: the walk
\* that creates missing Tables, the duplicate check, parseValue and the binding
inlineBind(tbl, parts, i, val) ==
  IF Len(parts) = 0 THEN Panics
  ELSE IF i = Len(parts) THEN
    IF inlineDuplicate(tbl.items, parts[i]) THEN Fail("duplicate inline table key")
    ELSE LET r == parseValue(val) IN
      IF r.err /= "" THEN r ELSE Ok([tbl EXCEPT !.items = Bind(@, parts[i], r.node)])
  ELSE IF parts[i] \notin DOMAIN tbl.items THEN
    LET r == inlineBind(NewTable, parts, i + 1, val) IN
      IF r.err /= "" THEN r ELSE Ok([tbl EXCEPT !.items = Bind(@, parts[i], r.node)])
  ELSE IF Kind(tbl.items[parts[i]]) /= "table" THEN Fail("inline table path conflict")
  ELSE LET r == inlineBind(tbl.items[parts[i]], parts, i + 1, val) IN
      IF r.err /= "" THEN r ELSE Ok([tbl EXCEPT !.items = Bind(@, parts[i], r.node)])

\* the loop of parseInlineTableToken over the split pairs
inlinePairs(pairs, i, tbl) ==
  IF i > Len(pairs) THEN Ok(tbl)
  ELSE LET pair == TrimSpace(pairs[i]) IN
    IF pair = <<>> THEN inlinePairs(pairs, i + 1, tbl)
    ELSE LET idx == findUnquotedEqual(pair) IN
      IF idx < 0 THEN Fail("invalid inline table kv")
      ELSE LET key == TrimSpace(Slice(pair, 0, idx))
               val == TrimSpace(Slice(pair, idx + 1, Len(pair)))
               kp == parseKeyParts(key)
           IN  IF kp.err /= "" THEN Fail(kp.err)
               ELSE LET r == inlineBind(tbl, kp.parts, 1, val) IN
                 IF r.err /= "" THEN r ELSE inlinePairs(pairs, i + 1, r.node)

parseInlineTableToken(s) ==
  LET content == TrimSpace(stripCommentPreserveStrings(s)) IN
    IF ~HasPrefix(content, <<"{">>) \/ ~HasSuffix(content, <<"}">>) THEN Fail("invalid inline table")
    ELSE IF 1 > Len(content) - 1 THEN Panics
    ELSE inlinePairs(splitTopLevel(TrimSpace(Slice(content, 1, Len(content) - 1))), 1, NewTable)

parseValue(s0) ==
  LET s == TrimSpace(stripCommentPreserveStrings(s0)) IN
    IF s = <<>> THEN Fail("empty value")
    ELSE IF HasPrefix(s, DQ3) THEN
      LET c == extractTripleQuoted(s, DQ) IN
        IF ~c.ok THEN Fail("unterminated multiline string")
        ELSE LET d == decodeBasicString(c.content, TRUE) IN
          IF d.err /= "" THEN Fail(d.err) ELSE Ok(NewValue("string", d.out))
    ELSE IF HasPrefix(s, SQ3) THEN
      LET c == extractTripleQuoted(s, SQ) IN
        IF ~c.ok THEN Fail("unterminated multiline literal string")
        ELSE Ok(NewValue("string", c.content))
    ELSE IF HasPrefix(s, <<DQ>>) THEN
      LET c == extractSingleQuoted(s, DQ) IN
        IF ~c.ok THEN Fail("unterminated string")
        ELSE LET d == decodeBasicString(c.content, FALSE) IN
          IF d.err /= "" THEN Fail(d.err) ELSE Ok(NewValue("string", d.out))
    ELSE IF HasPrefix(s, <<SQ>>) THEN
      LET c == extractSingleQuoted(s, SQ) IN
        IF ~c.ok THEN Fail("unterminated literal string")
        ELSE Ok(NewValue("string", c.content))
    ELSE IF HasPrefix(s, <<"[">>) THEN parseArrayToken(s)
    ELSE IF HasPrefix(s, <<"{">>) THEN parseInlineTableToken(s)
    ELSE IF s = <<"t", "r", "u", "e">> THEN Ok(NewValue("bool", TRUE))
    ELSE IF s = <<"f", "a", "l", "s", "e">> THEN Ok(NewValue("bool", FALSE))
    ELSE IF s = <<"i", "n", "f">> \/ s = <<"+", "i", "n", "f">> THEN Ok(NewValue("float", <<"+", "I", "n", "f">>))
    ELSE IF s = <<"-", "i", "n", "f">> THEN Ok(NewValue("float", <<"-", "I", "n", "f">>))
    ELSE IF EqualFoldNan(s) THEN Ok(NewValue("float", <<"N", "a", "N">>))
    ELSE IF isOffsetDatetime(s) THEN Ok(NewValue("datetime", s))
    ELSE IF parseLocalDateTimeVariants(s) /= "" THEN Ok(NewValue(parseLocalDateTimeVariants(s), s))
    ELSE IF parseIntToken(s).err = "" THEN Ok(NewValue("int", parseIntToken(s).n))
    ELSE IF isFloatToken(s) THEN Ok(NewValue("float", RemoveAll(s, "_")))
    ELSE Fail("unsupported value")

(***************************************************************************)
(* The heap.  A node identifier is an index into heap; Nil is Go's nil.    *)
(* alloc links a parsed value into the heap and gives its identifier.      *)
(***************************************************************************)
Nil == 0

RECURSIVE alloc(_, _)
RECURSIVE allocElems(_, _, _, _)
RECURSIVE allocItems(_, _, _, _)

allocElems(h, elems, i, ids) ==
  IF i > Len(elems) THEN [heap |-> h, ids |-> ids]
  ELSE LET r == alloc(h, elems[i]) IN allocElems(r.heap, elems, i + 1, Append(ids, r.id))

allocItems(h, items, keys, out) ==
  IF keys = {} THEN [heap |-> h, items |-> out]
  ELSE LET k == CHOOSE x \in keys : TRUE
           r == alloc(h, items[k])
       IN  allocItems(r.heap, items, keys \ {k}, Bind(out, k, r.id))

alloc(h, n) ==
  IF n.kind = "Array" THEN
    LET r == allocElems(h, n.elems, 1, <<>>)
    IN  [heap |-> Append(r.heap, [n EXCEPT !.elems = r.ids]), id |-> Len(r.heap) + 1]
  ELSE IF n.kind = "Table" THEN
    LET r == allocItems(h, n.items, DOMAIN n.items, NoItems)
    IN  [heap |-> Append(r.heap, [n EXCEPT !.items = r.items]), id |-> Len(r.heap) + 1]
  ELSE [heap |-> Append(h, n), id |-> Len(h) + 1]

(***************************************************************************)
(* Errors.  errf prefixes the message with "toml:<lineNo>: "; key is the   *)
(* key segment the message quotes, if it quotes one.                       *)
(***************************************************************************)
NoErr == [prefixed |-> FALSE, line |-> 0, msg |-> "", key |-> <<>>]

errf(ln, msg, key) == [prefixed |-> TRUE, line |-> ln, msg |-> msg, key |-> key]

\* the error bufio.Scanner reports through Err(), returned by Parse as it is
ScannerErr == [prefixed |-> FALSE, line |-> 0, msg |-> "scanner error", key |-> <<>>]

(***************************************************************************)
(* The walk along a key path that parseTableHeader and parseKeyValue share *)
(* (the same loop at 464-477, 484-497 and 526-540): from Table t through   *)
(* parts[i..n], creating the Tables that are missing.                      *)
(***************************************************************************)
\* a walk that goes on through any node it finds bound
notTableNever(n) == FALSE

\* n.Kind() != tomlValueKinds.ValueTable
notTable(n) == Kind(n) /= "table"

\* an array-of-tables header that extends any node it finds bound
notArrayNever(n) == FALSE

\* existing.Kind() != tomlValueKinds.ValueArray
notArray(n) == Kind(n) /= "array"

RECURSIVE walkTables(_, _, _, _, _)
walkTables(h, t, parts, i, n) ==
  IF i > n THEN [heap |-> h, t |-> t, conflict |-> <<>>]
  ELSE IF parts[i] \notin DOMAIN h[t].items THEN
    LET next == Len(h) + 1
    IN  walkTables(Append([h EXCEPT ![t].items = Bind(@, parts[i], next)], NewTable),
                   next, parts, i + 1, n)
  ELSE IF notTable(h[h[t].items[parts[i]]]) THEN [heap |-> h, t |-> t, conflict |-> parts[i]]
  ELSE walkTables(h, h[t].items[parts[i]], parts, i + 1, n)

(***************************************************************************)
(* parseTableHeader.  The result is the heap and the cursor after the      *)
(* call, the error returned, whether the call panicked, and the header's   *)
(* form and key path.                                                      *)
(***************************************************************************)
\* a plain header that leaves the cursor where it was
plainCursorKept(c, t) == c

\* p.cur = t at the end of the plain-header branch
plainCursor(c, t) == t

\* an array-of-tables header that keeps only the newest Table
appendElemOnly(elems, id) == <<id>>

\* an array-of-tables header that puts the new Table before the others
appendElemFront(elems, id) == <<id>> \o elems

\* arr.Elems = append(arr.Elems, newTbl)
appendElem(elems, id) == Append(elems, id)

\* a header whose path is walked from the Table the cursor is at
headerStartAtCursor(rt, c) == c

\* t := p.root and parent := p.root: a header path is walked from the root
headerStart(rt, c) == rt

headerResult(h, c, e, pan, isArray, parts) ==
  [heap |-> h, cur |-> c, err |-> e, panic |-> pan, isArray |-> isArray, parts |-> parts]

arrayHeader(h, rt, c, ln, parts) ==
  IF Len(parts) = 0 THEN headerResult(h, c, NoErr, TRUE, TRUE, parts)
  ELSE LET w == walkTables(h, headerStart(rt, c), parts, 1, Len(parts) - 1)
           last == parts[Len(parts)]
       IN
    IF w.conflict /= <<>>
      THEN headerResult(w.heap, c, errf(ln, "already defined and is not a table", w.conflict), FALSE, TRUE, parts)
    ELSE IF last \notin DOMAIN w.heap[w.t].items THEN
      LET arr == Len(w.heap) + 1
          newTbl == Len(w.heap) + 2
          h1 == Append([w.heap EXCEPT ![w.t].items = Bind(@, last, arr)],
                       NewArray(appendElem(<<>>, newTbl), FALSE))
      IN  headerResult(Append(h1, NewTable), newTbl, NoErr, FALSE, TRUE, parts)
    ELSE LET arr == w.heap[w.t].items[last] IN
      IF notArray(w.heap[arr])
        THEN headerResult(w.heap, c, errf(ln, "already defined and is not an array", last), FALSE, TRUE, parts)
        ELSE LET newTbl == Len(w.heap) + 1
             IN  headerResult(Append([w.heap EXCEPT ![arr].elems = appendElem(@, newTbl)], NewTable),
                              newTbl, NoErr, FALSE, TRUE, parts)

plainHeader(h, rt, c, ln, parts) ==
  LET w == walkTables(h, headerStart(rt, c), parts, 1, Len(parts)) IN
    IF w.conflict /= <<>>
      THEN headerResult(w.heap, c, errf(ln, "already defined and is not a table", w.conflict), FALSE, FALSE, parts)
      ELSE headerResult(w.heap, plainCursor(c, w.t), NoErr, FALSE, FALSE, parts)

parseTableHeader(h, rt, c, ln, line) ==
  LET s == TrimSpace(stripCommentPreserveStrings(line))
      isArray == HasPrefix(s, <<"[", "[">>)
  IN
    IF isArray /\ ~HasSuffix(s, <<"]", "]">>)
      THEN headerResult(h, c, errf(ln, "invalid array-of-table header", <<>>), FALSE, isArray, <<>>)
    ELSE IF ~isArray /\ ~HasSuffix(s, <<"]">>)
      THEN headerResult(h, c, errf(ln, "invalid table header", <<>>), FALSE, isArray, <<>>)
    ELSE LET name == IF isArray THEN TrimSpace(Slice(s, 2, Len(s) - 2))
                     ELSE TrimSpace(Slice(s, 1, Len(s) - 1))
             kp == parseKeyParts(name)
         IN
      IF kp.err /= "" THEN headerResult(h, c, errf(ln, kp.err, <<>>), FALSE, isArray, <<>>)
      ELSE IF isArray THEN arrayHeader(h, rt, c, ln, kp.parts)
      ELSE plainHeader(h, rt, c, ln, kp.parts)

(***************************************************************************)
(* consumeValue.  inp is the input and p the number of physical lines the  *)
(* scanner has produced; p.scanner.Scan() succeeds while p+k < Len(inp).   *)
(* The result is the text returned, the error, and the number n of lines   *)
(* pulled (each pull is one p.lineNo++).                                   *)
(***************************************************************************)
\* the loops at 865-877 and 883-895: pull lines until one brings the delimiter
RECURSIVE pullQuoted(_, _, _, _, _, _, _)
pullQuoted(b, initial, inp, p, k, delim, msg) ==
  IF p + k >= Len(inp) THEN [val |-> <<>>, err |-> msg, n |-> k]
  ELSE LET text == b \o <<NL>> \o inp[p + k + 1] IN
    IF Contains(Slice(text, Len(initial), Len(text)), delim)
      THEN [val |-> text, err |-> "", n |-> k + 1]
      ELSE pullQuoted(text, initial, inp, p, k + 1, delim, msg)

\* a loop that takes a value nested one level deep for a closed one
stillOpenNested(st) == st.depth > 1

\* for depth > 0
stillOpen(st) == st.depth > 0

\* the loop at 966-1035: pull lines while the bracket depth is positive
RECURSIVE pullCompound(_, _, _, _, _)
pullCompound(b, inp, p, k, st) ==
  IF ~stillOpen(st) THEN [val |-> b, err |-> "", n |-> k]
  ELSE IF p + k >= Len(inp) THEN [val |-> <<>>, err |-> "unterminated compound value", n |-> k]
  ELSE LET line == inp[p + k + 1]
       IN  pullCompound(b \o <<NL>> \o line, inp, p, k + 1, depthScan(line, 0, st))

consumeValue(initial, inp, p) ==
  LET sTrim == TrimSpace(stripCommentPreserveStrings(initial)) IN
    IF sTrim = <<>> THEN [val |-> <<>>, err |-> "empty value", n |-> 0]
    ELSE IF HasPrefix(sTrim, DQ3) /\ ~Contains(Slice(sTrim, 3, Len(sTrim)), DQ3)
      THEN pullQuoted(initial, initial, inp, p, 0, DQ3, "unterminated multiline string")
    ELSE IF HasPrefix(sTrim, SQ3) /\ ~Contains(Slice(sTrim, 3, Len(sTrim)), SQ3)
      THEN pullQuoted(initial, initial, inp, p, 0, SQ3, "unterminated multiline literal string")
    ELSE IF HasPrefix(sTrim, <<"[">>) \/ HasPrefix(sTrim, <<"{">>)
      THEN pullCompound(initial, inp, p, 0, depthScan(initial, 0, [depth |-> 0, q |-> NoQuote]))
    ELSE [val |-> initial, err |-> "", n |-> 0]

(***************************************************************************)
(* parseKeyValue.  ln is p.lineNo on entry.  The result is the heap after  *)
(* the call, the error returned, whether the call panicked, the number n   *)
(* of lines consumeValue pulled, and, for the properties, the key path,    *)
(* the Table t the walk reached, the text consumeValue returned and the    *)
(* identifier of the node bound.                                           *)
(***************************************************************************)
\* a parser that never finds the key bound, and so overwrites the binding
isDuplicateNever(items, last) == FALSE

\* _, exists := t.Items[last]
isDuplicate(items, last) == last \in DOMAIN items

kvResult(h, e, pan, n, parts, t, full, id) ==
  [heap |-> h, err |-> e, panic |-> pan, n |-> n, parts |-> parts, t |-> t, full |-> full, id |-> id]

\* v, err := parseValue(fullVal); t.Items[last] = v
kvBind(ln, parts, w, cv, v) ==
  IF v.panic THEN kvResult(w.heap, NoErr, TRUE, cv.n, parts, w.t, cv.val, Nil)
  ELSE IF v.err /= ""
    THEN kvResult(w.heap, errf(ln + cv.n, v.err, <<>>), FALSE, cv.n, parts, w.t, cv.val, Nil)
  ELSE kvResult([alloc(w.heap, v.node).heap EXCEPT
                   ![w.t].items = Bind(@, parts[Len(parts)], alloc(w.heap, v.node).id)],
                NoErr, FALSE, cv.n, parts, w.t, cv.val, alloc(w.heap, v.node).id)

\* fullVal, err := p.consumeValue(val)
kvValue(ln, parts, w, cv) ==
  IF cv.err /= ""
    THEN kvResult(w.heap, errf(ln + cv.n, cv.err, <<>>), FALSE, cv.n, parts, w.t, <<>>, Nil)
    ELSE kvBind(ln, parts, w, cv, parseValue(cv.val))

\* the outcome of the walk, then the duplicate check on the last segment
kvLast(ln, parts, w, val, inp, p) ==
  IF w.conflict /= <<>>
    THEN kvResult(w.heap, errf(ln, "already defined and is not a table", w.conflict),
                  FALSE, 0, parts, w.t, <<>>, Nil)
  ELSE IF isDuplicate(w.heap[w.t].items, parts[Len(parts)])
    THEN kvResult(w.heap, errf(ln, "duplicate key", parts[Len(parts)]), FALSE, 0, parts, w.t, <<>>, Nil)
  ELSE kvValue(ln, parts, w, consumeValue(val, inp, p))

\* parts, err := parseKeyParts(key), then the walk from p.cur
kvPath(h, c, ln, kp, val, inp, p) ==
  IF kp.err /= "" THEN kvResult(h, errf(ln, kp.err, <<>>), FALSE, 0, <<>>, Nil, <<>>, Nil)
  ELSE IF Len(kp.parts) = 0 THEN kvResult(h, NoErr, TRUE, 0, kp.parts, Nil, <<>>, Nil)
  ELSE kvLast(ln, kp.parts, walkTables(h, c, kp.parts, 1, Len(kp.parts) - 1), val, inp, p)

parseKeyValue(h, c, ln, line, idx, inp, p) ==
  kvPath(h, c, ln, parseKeyParts(TrimSpace(Slice(line, 0, idx))),
         TrimSpace(Slice(line, idx + 1, Len(line))), inp, p)

(***************************************************************************)
(* Get: the node at a path of key segments below Table rt.                 *)
(***************************************************************************)
RECURSIVE getFrom(_, _, _, _)
getFrom(h, c, path, i) ==
  IF i > Len(path) THEN [node |-> c, ok |-> TRUE]
  ELSE IF Len(path[i]) = 0 THEN getFrom(h, c, path, i + 1)
  ELSE IF h[c].kind /= "Table" THEN [node |-> Nil, ok |-> FALSE]
  ELSE IF path[i] \notin DOMAIN h[c].items THEN [node |-> Nil, ok |-> FALSE]
  ELSE getFrom(h, h[c].items[path[i]], path, i + 1)

Get(h, rt, path) == getFrom(h, rt, path, 1)

(***************************************************************************)
(* ToUntyped and GetUntyped.  A generic value is tagged with the Go type   *)
(* it has: the payload of a Value, a []any, a map[string]any, or nil.      *)
(***************************************************************************)
NilAny == [any |-> "nil", val |-> <<>>]

RECURSIVE ToUntyped(_, _)

\* a conversion that fills the slice from its end
untypedElemsReversed(h, elems) ==
  [i \in 1..Len(elems) |-> ToUntyped(h, elems[Len(elems) + 1 - i])]

\* out[i] = ToUntyped(v.Elems[i]) for i := range v.Elems
untypedElems(h, elems) == [i \in 1..Len(elems) |-> ToUntyped(h, elems[i])]

\* m[k] = ToUntyped(child) for k, child := range v.Items
untypedItems(h, items) == [k \in DOMAIN items |-> ToUntyped(h, items[k])]

ToUntyped(h, id) ==
  IF id = Nil THEN NilAny
  ELSE IF h[id].kind = "Value" THEN [any |-> "scalar", val |-> h[id].v]
  ELSE IF h[id].kind = "Array" THEN [any |-> "seq", val |-> untypedElems(h, h[id].elems)]
  ELSE [any |-> "map", val |-> untypedItems(h, h[id].items)]

GetUntyped(h, rt, path) ==
  IF ~Get(h, rt, path).ok THEN [val |-> NilAny, ok |-> FALSE]
  ELSE [val |-> ToUntyped(h, Get(h, rt, path).node), ok |-> TRUE]

(***************************************************************************)
(* MustString and MustInt.  Each asserts that the node is a *Value and     *)
(* that its payload has the Go type asked for; a failed assertion panics.  *)
(***************************************************************************)
\* the Go type of the payload parseValue stores for each discriminant
GoTypeOf(n) ==
  IF n.type = "string" THEN "string"
  ELSE IF n.type = "int" THEN "int64"
  ELSE IF n.type = "float" THEN "float64"
  ELSE IF n.type = "bool" THEN "bool"
  ELSE "time.Time"

\* an accessor that hands out the payload of any Value
hasTypeAny(n, want) == n.kind = "Value"

\* v := n.(*Value); v.V.(want)
hasType(n, want) == n.kind = "Value" /\ GoTypeOf(n) = want

MustString(h, id) ==
  IF id = Nil \/ ~hasType(h[id], "string") THEN [panic |-> TRUE, v |-> <<>>]
  ELSE [panic |-> FALSE, v |-> h[id].v]

MustInt(h, id) ==
  IF id = Nil \/ ~hasType(h[id], "int64") THEN [panic |-> TRUE, v |-> <<>>]
  ELSE [panic |-> FALSE, v |-> h[id].v]

(***************************************************************************)
(* Parse.  input is the sequence of physical lines bufio.Scanner delivers  *)
(* and pos the number of them it has delivered; lineNo, root and cur are   *)
(* the parser's fields; heap holds the nodes allocated so far.  pc is      *)
(* "loop" inside the read loop, "returned" after a return, "panicked"      *)
(* after a run-time panic; ret is the pair Parse returned.  op describes   *)
(* the step taken last and pre the parser's fields before it: they are     *)
(* what the properties of a step are stated over; hdrs lists the headers   *)
(* applied so far, each with the cursor it set.                            *)
(***************************************************************************)
VARIABLES input, pos, lineNo, heap, root, cur, pc, ret, op, pre, hdrs

vars == <<input, pos, lineNo, heap, root, cur, pc, ret, op, pre, hdrs>>

\* the physical lines of the documents: headers, key/value lines, a comment,
\* a line with an empty key, a line without '=' and a dotted key with a value
\* that is no TOML value
LineA == <<"[", "a", "]">>
LineAB == <<"[", "a", ".", "b", "]">>
LineAA == <<"[", "[", "a", "]", "]">>
LineAAB == <<"[", "[", "a", ".", "b", "]", "]">>
LineA1 == <<"a", " ", "=", " ", "1">>
LineB2 == <<"b", "=", "2">>
LineAB1 == <<"a", ".", "b", " ", "=", " ", "1">>
LineArr == <<"a", " ", "=", " ", "[", "1", "]">>
LineComment == <<" ", "#", "c">>
LineNoKey == <<"=", "1">>
LineBad == <<"o", "o", "p", "s">>
LineBX == <<"b", ".", "a", "=", "x">>

Lines ==
  {LineA, LineAB, LineAA, LineAAB, LineA1, LineB2, LineAB1, LineArr,
   LineComment, LineNoKey, LineBad, LineBX}

\* the lines of the documents with values that span physical lines
LineOpenArr == <<"b", " ", "=", " ", "[", "1", ",">>
LineClose2 == <<" ", "2", "]">>
LineCloseX == <<DQ, "x", DQ, "]">>
LineOpenStr == <<"b", " ", "=", " ", DQ, DQ, DQ, "x">>
LineCloseStr == <<"y", DQ, DQ, DQ>>
LineOpenCmt == <<"c", "=", "[", "#", "[">>
LineOpenTbl == <<"d", "=", "{", "a", "=", "1", ",">>
LineCloseTbl == <<"c", "=", "2", "}">>
LineBlank == <<>>

ScanLines ==
  {LineOpenArr, LineClose2, LineCloseX, LineOpenStr, LineCloseStr, LineOpenCmt,
   LineOpenTbl, LineCloseTbl, LineA, LineB2, LineBlank}

\* key expressions: quoted segments with a dot or with spaces inside the
\* quotes, a dotted key, a quoted segment after a bare one, and the key
\* expressions without a segment
LineQAB1 == <<DQ, "a", ".", "b", DQ, " ", "=", " ", "1">>
LineAC2 == <<"a", ".", "c", " ", "=", " ", "2">>
LineQSpA == <<DQ, " ", "a", DQ, " ", "=", " ", "1">>
LineLitBSp == <<SQ, "b", " ", SQ, " ", "=", " ", "1">>
LineAQBC == <<"a", ".", DQ, "b", ".", "c", DQ, " ", "=", " ", "1">>
LineEmptyKey == <<"=", " ", "1">>
LineQEmpty == <<DQ, DQ, " ", "=", " ", "1">>
LineAotEmpty == <<"[", "[", "]", "]">>

KeyLines ==
  {LineQAB1, LineAC2, LineQSpA, LineLitBSp, LineAQBC, LineEmptyKey, LineQEmpty,
   LineAotEmpty, LineA, LineAA, LineComment, LineBad}

\* integer literals: the bases of the tests, the ends of the int64 range, and
\* literals at and beyond the ends of the uint64 range
LineDec == <<"i", " ", "=", " ", "1", "_", "0", "0", "0">>
LineHex == <<"h", " ", "=", " ", "0", "x", "D", "E", "A", "D", "B", "E", "E", "F">>
LineOct == <<"o", " ", "=", " ", "0", "o", "7", "5", "5">>
LineBin == <<"b", " ", "=", " ", "0", "b", "1", "0", "1", "0">>
LineNegHex == <<"n", " ", "=", " ", "-", "0", "x", "1", "0">>
LineMax == <<"m", " ", "=", " ", "9", "2", "2", "3", "3", "7", "2", "0", "3", "6", "8", "5", "4", "7", "7", "5", "8", "0", "7">>
LineMin == <<"k", " ", "=", " ", "-", "9", "2", "2", "3", "3", "7", "2", "0", "3", "6", "8", "5", "4", "7", "7", "5", "8", "0", "8">>
LineOverDec == <<"d", " ", "=", " ", "9", "2", "2", "3", "3", "7", "2", "0", "3", "6", "8", "5", "4", "7", "7", "5", "8", "0", "8">>
LineHexAllOnes == <<"u", " ", "=", " ", "0", "x", "F", "F", "F", "F", "F", "F", "F", "F", "F", "F", "F", "F", "F", "F", "F", "F">>
LineHexTopBit == <<"t", " ", "=", " ", "0", "x", "8", "0", "0", "0", "0", "0", "0", "0", "0", "0", "0", "0", "0", "0", "0", "0">>
LineHexOver == <<"w", " ", "=", " ", "0", "x", "1", "0", "0", "0", "0", "0", "0", "0", "0", "0", "0", "0", "0", "0", "0", "0", "0">>
LinePlusOct == <<"p", " ", "=", " ", "+", "0", "o", "1", "7">>

IntLines ==
  {LineDec, LineHex, LineOct, LineBin, LineNegHex, LineMax,
   LineMin, LineOverDec, LineHexAllOnes, LineHexTopBit, LineHexOver, LinePlusOct,
   LineA, LineComment, LineBad}

\* lines with '#' and '=' inside and outside the four kinds of quoted region
LineHashBasic == <<"a", " ", "=", " ", DQ, "x", "#", "y", DQ, " ", "#", " ", "c">>
LineHashLiteral == <<"b", " ", "=", " ", SQ, "x", "#", "y", SQ, " ", "#", "c">>
LineHashMultiBasic == <<"c", " ", "=", " ", DQ, DQ, DQ, "x", "#", DQ, "y", DQ, DQ, DQ, " ", "#", " ", "c">>
LineHashMultiLiteral == <<"d", " ", "=", " ", SQ, SQ, SQ, "x", "#", SQ, SQ, SQ, " ", "#">>
LineHashEscaped == <<"e", " ", "=", " ", DQ, "x", BS, DQ, "#", DQ, " ", "#", " ", "c">>
LineEqBasicKey == <<DQ, "a", "=", "b", DQ, " ", "=", " ", "1">>
LineEqLiteralKey == <<SQ, "a", "=", "b", SQ, " ", "=", " ", DQ, "c", "=", "d", DQ>>
LineEqOnlyQuoted == <<DQ, "a", "=", "b", DQ>>
LineHeaderComment == <<"[", "a", "]", " ", "#", " ", "[", "b", "]">>
LineHeaderHash == <<"[", DQ, "a", "#", "b", DQ, "]">>
LineQuoteInComment == <<"f", " ", "=", " ", "1", " ", "#", " ", DQ, "x", DQ>>
LineHashOpen == <<"g", " ", "=", " ", DQ, "x", " ", "#", " ", "y">>

QuoteLines ==
  {LineHashBasic, LineHashLiteral, LineHashMultiBasic, LineHashMultiLiteral, LineHashEscaped,
   LineEqBasicKey, LineEqLiteralKey, LineEqOnlyQuoted, LineHeaderComment,
   LineHeaderHash, LineQuoteInComment, LineHashOpen, LineComment}

\* inline tables: the table of the tests, dotted and quoted keys, a duplicate
\* key, a path through a value, nesting, and pairs without '=' or without key
LineOwner ==
  <<"o", "w", "n", "e", "r", " ", "=", " ", "{", " ", "n", "a", "m", "e", " ", "=", " ", DQ, "T", "o", "m", DQ, ",", " ", "d", "o", "b", " ", "=", " ", "1", "9", "7", "9", "-", "0", "5", "-", "2", "7", "T", "0", "7", ":", "3", "2", ":", "0", "0", "Z", " ", "}">>
LineInlineDotted ==
  <<"a", " ", "=", " ", "{", " ", "b", ".", "c", " ", "=", " ", "1", ",", " ", "b", ".", "d", " ", "=", " ", "2", " ", "}">>
LineInlineDup == <<"a", " ", "=", " ", "{", " ", "b", " ", "=", " ", "1", ",", " ", "b", " ", "=", " ", "2", " ", "}">>
LineInlineConflict ==
  <<"a", " ", "=", " ", "{", " ", "b", " ", "=", " ", "1", ",", " ", "b", ".", "c", " ", "=", " ", "2", " ", "}">>
LineInlineDupTable ==
  <<"a", " ", "=", " ", "{", " ", "b", ".", "c", " ", "=", " ", "1", ",", " ", "b", " ", "=", " ", "2", " ", "}">>
LineInlineQuoted ==
  <<"a", " ", "=", " ", "{", " ", DQ, "x", ".", "y", DQ, " ", "=", " ", "1", ",", " ", "x", ".", "y", " ", "=", " ", "2", " ", "}">>
LineInlineNested ==
  <<"a", " ", "=", " ", "{", " ", "b", " ", "=", " ", "{", " ", "c", " ", "=", " ", "1", " ", "}", ",", " ", "d", " ", "=", " ", "[", "1", ",", " ", "2", "]", " ", "}">>
LineInlineNoEq == <<"a", " ", "=", " ", "{", " ", "b", " ", "}">>
LineInlineNoKey == <<"a", " ", "=", " ", "{", " ", "=", " ", "1", " ", "}">>
LineInlineEmpty == <<"a", " ", "=", " ", "{", "}">>
LineInlineTrailing == <<"a", " ", "=", " ", "{", " ", "b", " ", "=", " ", "1", ",", " ", "}">>

InlineLines ==
  {LineOwner, LineInlineDotted, LineInlineDup, LineInlineConflict,
   LineInlineDupTable, LineInlineQuoted, LineInlineNested, LineInlineNoEq,
   LineInlineNoKey, LineInlineEmpty, LineInlineTrailing, LineA, LineComment, LineBad}

\* multi-line basic strings: the three lines of TestMultilineBasicString, an
\* opening line that ends at the delimiter, one that ends in a backslash, one
\* that ends in a space, and closing lines with and without leading blanks
LineDescOpen == <<"d", "e", "s", "c", " ", "=", " ", DQ, DQ, DQ, "f", "i", "r", "s", "t">>
LineSecond == <<"s", "e", "c", "o", "n", "d">>
LineThirdClose == <<"t", "h", "i", "r", "d", DQ, DQ, DQ>>
LineStrOpenOnly == <<"s", " ", "=", " ", DQ, DQ, DQ>>
LineStrOpenFold == <<"f", " ", "=", " ", DQ, DQ, DQ, "a", BS>>
LineStrOpenSpace == <<"t", " ", "=", " ", DQ, DQ, DQ, "a", " ">>
LineStrCloseBlanks == <<" ", TAB, "b", DQ, DQ, DQ>>

StringLines ==
  {LineDescOpen, LineSecond, LineThirdClose, LineStrOpenOnly, LineStrOpenFold,
   LineStrOpenSpace, LineStrCloseBlanks, LineBlank, LineA, LineComment}

\* the lines of TestMultilineArrayAndTrailingComma, with headers and a
\* key/value line around them
LinePortsOpen == <<"p", "o", "r", "t", "s", " ", "=", " ", "[">>
LinePort1 == <<" ", " ", "8", "0", "0", "1", ",">>
LinePort2 == <<" ", " ", "8", "0", "0", "2", ",">>
LineCloseArr == <<"]">>

UntypedLines ==
  {LinePortsOpen, LinePort1, LinePort2, LineCloseArr, LineA, LineAA, LineB2,
   LineComment, LineBlank}

\* basic strings with escapes: supported ones, an unknown letter, a slash, a
\* backslash that ends the content, unicode escapes that are complete, cut
\* short, signed, or hold a character that is no hex digit, an escaped
\* backslash before a letter, and an unknown escape between triple quotes
LineEscTab == <<"a", "=", DQ, BS, "t", BS, BS, BS, DQ, DQ>>
LineEscQ == <<"b", "=", DQ, "x", BS, "q", DQ>>
LineEscSlash == <<"b", "=", DQ, BS, "/", DQ>>
LineEscEnd == <<"c", "=", DQ, "x", BS, BS, BS, DQ>>
LineEscU == <<"d", "=", DQ, BS, "u", "0", "0", "4", "1", DQ>>
LineEscUShort == <<"e", "=", DQ, BS, "u", "0", "0", "4", DQ>>
LineEscUNonHex == <<"e", "=", DQ, BS, "u", "0", "0", "g", "1", DQ>>
LineEscUSigned == <<"e", "=", DQ, BS, "u", "+", "0", "4", "1", DQ>>
LineEscBigU == <<"f", "=", DQ, BS, "U", "0", "0", "0", "0", "0", "0", "6", "1", "z", DQ>>
LineEscBigUShort == <<"g", "=", DQ, BS, "U", "0", "0", "0", "0", "0", "0", "6", DQ>>
LineEscBigUNonHex == <<"g", "=", DQ, BS, "U", "0", "0", "0", "0", "_", "0", "6", "1", DQ>>
LineEscBackQ == <<"h", "=", DQ, BS, BS, "q", DQ>>
LineEscTriple == <<"i", "=", DQ, DQ, DQ, BS, "q", DQ, DQ, DQ>>

EscapeLines ==
  {LineEscTab, LineEscQ, LineEscSlash, LineEscEnd, LineEscU, LineEscUShort,
   LineEscUNonHex, LineEscUSigned, LineEscBigU, LineEscBigUShort, LineEscBigUNonHex,
   LineEscBackQ, LineEscTriple, LineA, LineComment, LineBad}

\* lines to classify: headers with a comment and with a quoted '#', lines
\* that begin with '[' and do not end with ']', with and without an '=', a
\* comment that holds a header, and a value that holds brackets
LineHdrQuotedHash == <<"[", DQ, "a", "#", "b", DQ, "]", " ", "#", "c">>
LineHdrThenEq == <<"[", "a", "]", " ", "=", " ", "1">>
LineOpenThenEq == <<" ", "[", "b", "=", "1">>
LineAotUnclosed == <<"[", "[", "a", "]">>
LineHdrJunk == <<"[", "a", "]", " ", "x">>
LineCommentHdr == <<TAB, "#", " ", "[", "a", "]">>
LineValBrackets == <<"x", " ", "=", " ", DQ, "[", "a", "]", DQ>>

ClassLines ==
  {LineHdrQuotedHash, LineHdrThenEq, LineOpenThenEq, LineAotUnclosed, LineHdrJunk,
   LineCommentHdr, LineValBrackets, LineHeaderComment, LineA, LineAA, LineA1,
   LineBlank, LineBad}

\* arrays with comments: an array reduced to '[' by its comment, an array
\* that goes on after a comment, a comment that holds a closing bracket, an
\* opening one, and a quote; the lines that close them; an empty key and an
\* empty array-of-tables header
LineArrLone == <<"x", " ", "=", " ", "[", " ", "#", " ", "]">>
LineArrCmt == <<"a", " ", "=", " ", "[", "1", ",", " ", "#", " ", "c">>
LineArrCmtClose == <<"a", " ", "=", " ", "[", "1", ",", " ", "#", " ", "]">>
LineArrCmtOpen == <<"a", " ", "=", " ", "[", "1", ",", " ", "#", " ", "[">>
LineArrCmtQuote == <<"a", " ", "=", " ", "[", "1", ",", " ", "#", " ", DQ>>

CommentLines ==
  {LineArrLone, LineArrCmt, LineArrCmtClose, LineArrCmtOpen, LineArrCmtQuote,
   LineOpenArr, LineClose2, LineEmptyKey, LineAotEmpty, LineA, LineComment}

\* Lines for the delimiters of compound values: an array closed by '}', an
\* inline table closed by ']', an array that is never closed, an array with
\* text after its ']', and the lines that close an array begun before
LineArrBrace == <<"x", " ", "=", " ", "[", "1", "}">>
LineTblBracket == <<"y", " ", "=", " ", "{", "b", "=", "1", "]">>
LineArrNoClose == <<"z", " ", "=", " ", "[", "1">>
LineArrJunk == <<"w", " ", "=", " ", "[", "1", "]", " ", "2">>
LineCloseBrace == <<" ", "2", "}">>

BracketLines ==
  {LineArrBrace, LineTblBracket, LineArrNoClose, LineArrJunk, LineCloseBrace,
   LineArr, LineInlineEmpty, LineOpenArr, LineClose2, LineA, LineComment, LineBad}

Docs(pool) == UNION {[1..n -> pool] : n \in 0..MaxLines}

DocsUpTo(pool, max) == UNION {[1..n -> pool] : n \in 0..max}

State(h, rt, c, ln, p) == [heap |-> h, root |-> rt, cur |-> c, lineNo |-> ln, pos |-> p]

Op(kind, start, isArray, parts, t, full, id) ==
  [kind |-> kind, start |-> start, isArray |-> isArray, parts |-> parts,
   t |-> t, full |-> full, id |-> id]

NoReturn == [root |-> Nil, err |-> NoErr]

\* a return that hands out the tree built so far together with the error
returnErrWithTree(rt, e) == [root |-> rt, err |-> e]

\* return nil, err
returnErr(rt, e) == [root |-> Nil, err |-> e]

\* return p.root, nil
returnRoot(rt) == [root |-> rt, err |-> NoErr]

InitDocs(docs) ==
  /\ input \in docs
  /\ pos = 0
  /\ lineNo = 0
  /\ heap = <<NewTable>>
  /\ root = 1
  /\ cur = 1
  /\ pc = "loop"
  /\ ret = NoReturn
  /\ op = Op("none", 0, FALSE, <<>>, Nil, <<>>, Nil)
  /\ pre = State(<<NewTable>>, 1, 1, 0, 0)
  /\ hdrs = <<>>

InitWith(pool) == InitDocs(Docs(pool))

Init == InitWith(Lines)

InitScan == InitWith(ScanLines)

InitKeys == InitDocs(DocsUpTo(KeyLines, MaxFnLines))

InitInts == InitDocs(DocsUpTo(IntLines, MaxFnLines))

InitQuotes == InitDocs(DocsUpTo(QuoteLines, MaxFnLines))

InitInline == InitDocs(DocsUpTo(InlineLines, MaxFnLines))

InitStrings == InitDocs(DocsUpTo(StringLines, MaxStrLines))

InitUntyped == InitWith(UntypedLines)

InitEscapes == InitDocs(DocsUpTo(EscapeLines, MaxFnLines))

InitClass == InitDocs(DocsUpTo(ClassLines, MaxFnLines))

InitComments == InitDocs(DocsUpTo(CommentLines, MaxFnLines))

InitBrackets == InitDocs(DocsUpTo(BracketLines, MaxFnLines))

\* line := strings.TrimSpace(p.scanner.Text()) of the line Scan delivers next
NextLine == TrimSpace(input[pos + 1])

Scanning == pc = "loop" /\ pos < Len(input)

Snapshot == pre' = State(heap, root, cur, lineNo, pos)

\* an empty line or a comment line: continue
SkipLine ==
  /\ Scanning
  /\ NextLine = <<>> \/ HasPrefix(NextLine, <<"#">>)
  /\ pos' = pos + 1
  /\ lineNo' = lineNo + 1
  /\ op' = Op("skip", lineNo + 1, FALSE, <<>>, Nil, <<>>, Nil)
  /\ Snapshot
  /\ UNCHANGED <<input, heap, root, cur, pc, ret, hdrs>>

\* the parser after parseTableHeader gave r
HeaderStep(r) ==
  /\ pos' = pos + 1
  /\ lineNo' = lineNo + 1
  /\ heap' = r.heap
  /\ cur' = r.cur
  /\ pc' = IF r.panic THEN "panicked" ELSE IF r.err /= NoErr THEN "returned" ELSE "loop"
  /\ ret' = IF ~r.panic /\ r.err /= NoErr THEN returnErr(root, r.err) ELSE ret
  /\ op' = Op("header", lineNo + 1, r.isArray, r.parts, Nil, <<>>, Nil)
  /\ hdrs' = IF r.panic \/ r.err /= NoErr THEN hdrs
             ELSE Append(hdrs, [isArray |-> r.isArray, parts |-> r.parts, cur |-> r.cur])

\* case strings.HasPrefix(line, "["): p.parseTableHeader(line)
TableHeader ==
  /\ Scanning
  /\ NextLine /= <<>> /\ ~HasPrefix(NextLine, <<"#">>)
  /\ HasPrefix(NextLine, <<"[">>)
  /\ HeaderStep(parseTableHeader(heap, root, cur, lineNo + 1, NextLine))
  /\ Snapshot
  /\ UNCHANGED <<input, root>>

\* a parser that counts the continuation lines of a value and leaves them
\* to be read again
KeyValueStepRewind(r) ==
  /\ pos' = pos + 1
  /\ lineNo' = lineNo + 1 + r.n
  /\ heap' = r.heap
  /\ pc' = IF r.panic THEN "panicked" ELSE IF r.err /= NoErr THEN "returned" ELSE "loop"
  /\ ret' = IF ~r.panic /\ r.err /= NoErr THEN returnErr(root, r.err) ELSE ret
  /\ op' = Op("kv", lineNo + 1, FALSE, r.parts, r.t, r.full, r.id)

\* a parser whose binding is made or lost from one run to the next
KeyValueStepRacy(r) ==
  /\ pos' = pos + 1 + r.n
  /\ lineNo' = lineNo + 1 + r.n
  /\ heap' \in {r.heap, heap}
  /\ pc' = IF r.panic THEN "panicked" ELSE IF r.err /= NoErr THEN "returned" ELSE "loop"
  /\ ret' = IF ~r.panic /\ r.err /= NoErr THEN returnErr(root, r.err) ELSE ret
  /\ op' = Op("kv", lineNo + 1, FALSE, r.parts, r.t, r.full, r.id)

\* the parser after parseKeyValue gave r
KeyValueStep(r) ==
  /\ pos' = pos + 1 + r.n
  /\ lineNo' = lineNo + 1 + r.n
  /\ heap' = r.heap
  /\ pc' = IF r.panic THEN "panicked" ELSE IF r.err /= NoErr THEN "returned" ELSE "loop"
  /\ ret' = IF ~r.panic /\ r.err /= NoErr THEN returnErr(root, r.err) ELSE ret
  /\ op' = Op("kv", lineNo + 1, FALSE, r.parts, r.t, r.full, r.id)

\* default: idx := findUnquotedEqual(line); p.parseKeyValue(line, idx)
KeyValue ==
  /\ Scanning
  /\ NextLine /= <<>> /\ ~HasPrefix(NextLine, <<"#">>)
  /\ ~HasPrefix(NextLine, <<"[">>)
  /\ findUnquotedEqual(NextLine) >= 0
  /\ KeyValueStep(parseKeyValue(heap, cur, lineNo + 1, NextLine, findUnquotedEqual(NextLine),
                                input, pos + 1))
  /\ Snapshot
  /\ UNCHANGED <<input, root, cur, hdrs>>

\* default: idx < 0: return nil, p.errf("invalid syntax")
InvalidSyntax ==
  /\ Scanning
  /\ NextLine /= <<>> /\ ~HasPrefix(NextLine, <<"#">>)
  /\ ~HasPrefix(NextLine, <<"[">>)
  /\ findUnquotedEqual(NextLine) < 0
  /\ pos' = pos + 1
  /\ lineNo' = lineNo + 1
  /\ pc' = "returned"
  /\ ret' = returnErr(root, errf(lineNo + 1, "invalid syntax", <<>>))
  /\ op' = Op("syntax", lineNo + 1, FALSE, <<>>, Nil, <<>>, Nil)
  /\ Snapshot
  /\ UNCHANGED <<input, heap, root, cur, hdrs>>

\* Scan returns false at the end of the input and Err() is nil: return p.root, nil
EndOfInput ==
  /\ pc = "loop" /\ pos = Len(input)
  /\ pc' = "returned"
  /\ ret' = returnRoot(root)
  /\ op' = Op("eof", lineNo, FALSE, <<>>, Nil, <<>>, Nil)
  /\ Snapshot
  /\ UNCHANGED <<input, pos, lineNo, heap, root, cur, hdrs>>

\* Scan returns false because reading failed and Err() is not nil: return nil, err
ScannerFails ==
  /\ pc = "loop" /\ pos = Len(input)
  /\ pc' = "returned"
  /\ ret' = returnErr(root, ScannerErr)
  /\ op' = Op("scanerr", lineNo, FALSE, <<>>, Nil, <<>>, Nil)
  /\ Snapshot
  /\ UNCHANGED <<input, pos, lineNo, heap, root, cur, hdrs>>

Next ==
  \/ SkipLine
  \/ TableHeader
  \/ KeyValue
  \/ InvalidSyntax
  \/ EndOfInput
  \/ ScannerFails

Spec == Init /\ [][Next]_vars

SpecScan == InitScan /\ [][Next]_vars

SpecKeys == InitKeys /\ [][Next]_vars

SpecInts == InitInts /\ [][Next]_vars

SpecQuotes == InitQuotes /\ [][Next]_vars

SpecInline == InitInline /\ [][Next]_vars

SpecStrings == InitStrings /\ [][Next]_vars

SpecUntyped == InitUntyped /\ [][Next]_vars

SpecEscapes == InitEscapes /\ [][Next]_vars

SpecClass == InitClass /\ [][Next]_vars

SpecComments == InitComments /\ [][Next]_vars

SpecBrackets == InitBrackets /\ [][Next]_vars

(***************************************************************************)
(* Properties.  They are stated over the step taken last: op describes it, *)
(* pre is the parser before it, the unprimed variables the parser after    *)
(* it.  The definitions below read the tree without changing it.           *)
(***************************************************************************)
\* the Table reached from Table t through parts[i..n] along bindings that
\* exist and are Tables; Nil when a segment is unbound or bound to another node
RECURSIVE ResolveTables(_, _, _, _, _)
ResolveTables(h, t, parts, i, n) ==
  IF i > n THEN t
  ELSE IF parts[i] \notin DOMAIN h[t].items THEN Nil
  ELSE IF h[h[t].items[parts[i]]].kind /= "Table" THEN Nil
  ELSE ResolveTables(h, h[t].items[parts[i]], parts, i + 1, n)

\* segment i of parts is bound, in the Table the segments before it lead to
\* from t, to a node that is not a Table
BlockedAt(h, t, parts, i) ==
  /\ ResolveTables(h, t, parts, 1, i - 1) /= Nil
  /\ parts[i] \in DOMAIN h[ResolveTables(h, t, parts, 1, i - 1)].items
  /\ h[h[ResolveTables(h, t, parts, 1, i - 1)].items[parts[i]]].kind /= "Table"

\* the step taken last returned this error from Parse
Returned(e) == pc = "returned" /\ ret = [root |-> Nil, err |-> e]

\* the Table in which the key/value line of the step taken last binds its last segment
KvTable == ResolveTables(pre.heap, pre.cur, op.parts, 1, Len(op.parts) - 1)

KvLast == op.parts[Len(op.parts)]

\* the step taken last read a key/value line whose last key segment was already bound
KvOnBoundKey ==
  /\ op.kind = "kv" /\ Len(op.parts) > 0
  /\ KvTable /= Nil
  /\ KvLast \in DOMAIN pre.heap[KvTable].items

\* C1: a key/value line whose last key segment is already bound in the Table
\* its path reaches from the cursor makes Parse return the duplicate-key error
\* with the number of that line, and changes no binding of the tree.
C1_DuplicateKeyRejected ==
  KvOnBoundKey =>
    /\ Returned(errf(pre.pos + 1, "duplicate key", KvLast))
    /\ heap = pre.heap

C1_Witness ==
  /\ KvOnBoundKey
  /\ pc = "returned"
  /\ pre.pos >= 1

\* C2: no step removes or replaces a binding: every node of the tree before a
\* step is the same kind of node after it, a Value is unchanged, and every key
\* bound in a Table is still bound in it to the same node.
C2_TreeOnlyGrows ==
  /\ Len(pre.heap) <= Len(heap)
  /\ \A n \in 1..Len(pre.heap) :
       /\ heap[n].kind = pre.heap[n].kind
       /\ pre.heap[n].kind = "Value" => heap[n] = pre.heap[n]
       /\ \A k \in DOMAIN pre.heap[n].items :
            k \in DOMAIN heap[n].items /\ heap[n].items[k] = pre.heap[n].items[k]

C2_Witness ==
  /\ op.kind \in {"kv", "header"}
  /\ DOMAIN pre.heap[root].items /= {}
  /\ DOMAIN heap[root].items /= DOMAIN pre.heap[root].items

\* the Table a path of the step taken last starts from, and the number of its
\* segments that must lead through Tables
WalkStart == IF op.kind = "header" THEN pre.root ELSE pre.cur

WalkLen == IF op.kind = "header" /\ ~op.isArray THEN Len(op.parts) ELSE Len(op.parts) - 1

\* C3: a header or key/value line whose path leads through a key bound to a
\* node that is not a Table makes Parse return the "already defined and is not
\* a table" error for that key, and changes nothing in the tree.
C3_PathThroughNonTable ==
  \A i \in 1..Len(op.parts) :
    (op.kind \in {"header", "kv"} /\ i <= WalkLen /\ BlockedAt(pre.heap, WalkStart, op.parts, i)) =>
      /\ Returned(errf(pre.pos + 1, "already defined and is not a table", op.parts[i]))
      /\ heap = pre.heap

\* a plain header whose path re-uses a key bound to a scalar
C3_Witness ==
  /\ op.kind = "header" /\ ~op.isArray
  /\ \E i \in 1..Len(op.parts) :
       /\ BlockedAt(pre.heap, pre.root, op.parts, i)
       /\ pre.heap[pre.heap[ResolveTables(pre.heap, pre.root, op.parts, 1, i - 1)].items[op.parts[i]]].kind = "Value"
  /\ pc = "returned"

\* the header that set the cursor: the last one applied, or the empty path of
\* the root before any header
LastHeader ==
  IF hdrs = <<>> THEN [isArray |-> FALSE, parts |-> <<>>, cur |-> pre.root]
  ELSE hdrs[Len(hdrs)]

\* the segments of a path a node can be a link of
Segments(parts) == {parts[i] : i \in 1..Len(parts)}

\* a successful plain header was the step taken last
PlainHeaderApplied == op.kind = "header" /\ ~op.isArray /\ pc = "loop"

\* a successful key/value line was the step taken last
KvApplied == op.kind = "kv" /\ pc = "loop"

\* C4: after a plain header [p1.....pn] the cursor is the Table Get finds at
\* p1.....pn below the root; the header creates only empty Tables and the
\* links between them, every Table that existed keeps its bindings and gains
\* at most a link of the path; and a key/value line that follows binds its
\* value where Get finds it at p1.....pn followed by the line's key path.
C4_PlainHeaderSetsCursor ==
  /\ (pc = "loop" /\ ~LastHeader.isArray) =>
       /\ Get(heap, root, LastHeader.parts) = [node |-> cur, ok |-> TRUE]
       /\ heap[cur].kind = "Table"
  /\ PlainHeaderApplied =>
       /\ \A n \in (Len(pre.heap) + 1)..Len(heap) :
            /\ heap[n].kind = "Table"
            /\ DOMAIN heap[n].items \subseteq Segments(op.parts)
            /\ Cardinality(DOMAIN heap[n].items) <= 1
       /\ cur > Len(pre.heap) => heap[cur] = NewTable
       /\ \A n \in 1..Len(pre.heap) :
            /\ \A k \in DOMAIN pre.heap[n].items : heap[n].items[k] = pre.heap[n].items[k]
            /\ (DOMAIN heap[n].items) \ (DOMAIN pre.heap[n].items) \subseteq Segments(op.parts)
            /\ Cardinality((DOMAIN heap[n].items) \ (DOMAIN pre.heap[n].items)) <= 1
  /\ (KvApplied /\ ~LastHeader.isArray) =>
       /\ op.id > Len(pre.heap)
       /\ Get(heap, root, LastHeader.parts \o op.parts) = [node |-> op.id, ok |-> TRUE]

\* a key/value line bound below a Table that [a.b] reused with its bindings
C4_Witness ==
  /\ KvApplied
  /\ Len(hdrs) >= 2
  /\ ~LastHeader.isArray /\ Len(LastHeader.parts) = 2
  /\ DOMAIN pre.heap[cur].items /= {}

\* the cursors set by the array-of-tables headers with path parts, in order
RECURSIVE CursorsOf(_, _, _)
CursorsOf(log, i, parts) ==
  IF i > Len(log) THEN <<>>
  ELSE IF log[i].isArray /\ log[i].parts = parts
    THEN <<log[i].cur>> \o CursorsOf(log, i + 1, parts)
    ELSE CursorsOf(log, i + 1, parts)

ArrayPaths == {hdrs[i].parts : i \in {j \in 1..Len(hdrs) : hdrs[j].isArray}}

ArrayAt(parts) == Get(heap, root, parts).node

\* a successful array-of-tables header was the step taken last
ArrayHeaderApplied == op.kind = "header" /\ op.isArray /\ pc = "loop"

\* C5: every [[name]] header appends exactly one new empty Table to the Array
\* bound to name and makes it the cursor, no other step changes an Array, so
\* that an Array a header created holds exactly the Tables of the k headers
\* applied for it, in their order; and a key/value line after the i-th header
\* is bound in the i-th Table.
C5_ArrayOfTablesAppends ==
  /\ \A parts \in ArrayPaths :
       /\ Get(heap, root, parts).ok
       /\ heap[ArrayAt(parts)].kind = "Array"
       /\ ~heap[ArrayAt(parts)].lit => heap[ArrayAt(parts)].elems = CursorsOf(hdrs, 1, parts)
  /\ ArrayHeaderApplied =>
       /\ cur > Len(pre.heap)
       /\ heap[cur] = NewTable
       /\ heap[ArrayAt(op.parts)].elems =
            (IF ArrayAt(op.parts) <= Len(pre.heap) THEN pre.heap[ArrayAt(op.parts)].elems ELSE <<>>)
              \o <<cur>>
  /\ ~(op.kind = "header" /\ op.isArray) =>
       \A n \in 1..Len(pre.heap) : heap[n].elems = pre.heap[n].elems
  /\ (KvApplied /\ LastHeader.isArray) =>
       /\ cur = heap[ArrayAt(LastHeader.parts)].elems[Len(heap[ArrayAt(LastHeader.parts)].elems)]
       /\ cur = LastHeader.cur
       /\ Get(heap, cur, op.parts) = [node |-> op.id, ok |-> TRUE]

\* a key/value line bound in the second Table of an array of tables
C5_Witness ==
  /\ KvApplied
  /\ LastHeader.isArray
  /\ ~heap[ArrayAt(LastHeader.parts)].lit
  /\ Len(heap[ArrayAt(LastHeader.parts)].elems) >= 2

\* the Table in which the array-of-tables header of the step taken last looks
\* up its last segment
AotTable == ResolveTables(pre.heap, pre.root, op.parts, 1, Len(op.parts) - 1)

\* the step taken last read an array-of-tables header whose last segment was
\* bound to a node that is not an Array
AotOnNonArray ==
  /\ op.kind = "header" /\ op.isArray /\ Len(op.parts) > 0
  /\ AotTable /= Nil
  /\ op.parts[Len(op.parts)] \in DOMAIN pre.heap[AotTable].items
  /\ pre.heap[pre.heap[AotTable].items[op.parts[Len(op.parts)]]].kind /= "Array"

\* C6: an array-of-tables header whose last segment is bound to a node that is
\* not an Array makes Parse return an error, and changes nothing in the tree.
C6_ArrayHeaderOnNonArray ==
  AotOnNonArray =>
    /\ Returned(errf(pre.pos + 1, "already defined and is not an array", op.parts[Len(op.parts)]))
    /\ heap = pre.heap
    /\ cur = pre.cur

\* [[a]] after a has been bound to a Table
C6_Witness ==
  /\ AotOnNonArray
  /\ pre.heap[pre.heap[AotTable].items[op.parts[Len(op.parts)]]].kind = "Table"
  /\ pc = "returned"

\* the kinds of the elements of Array n
ElemKinds(h, n) == {Kind(h[h[n].elems[i]]) : i \in 1..Len(h[n].elems)}

\* C7: in the tree a successful Parse returns, all the elements of an Array
\* produced from a literal array token report the same Kind().
C7_LiteralArraysHomogeneous ==
  (pc = "returned" /\ ret.root /= Nil) =>
    \A n \in 1..Len(heap) :
      (heap[n].kind = "Array" /\ heap[n].lit) => Cardinality(ElemKinds(heap, n)) <= 1

\* C8: the error Parse returns for a header or a key/value line carries the
\* number of the physical line on which that logical line began.
C8_ErrorLineIsFirstLine ==
  (pc = "returned" /\ op.kind \in {"header", "kv"} /\ ret.err /= NoErr) =>
    /\ ret.err.prefixed
    /\ ret.err.line = pre.pos + 1

\* C9: Parse returns a root and no error, or an error and no root; the root
\* only after every line has been read and applied without an error; and the
\* step that raises an error is the last one: nothing is read after it.
C9_RootOrError ==
  /\ pc = "returned" =>
       \/ /\ ret.root = root /\ ret.err = NoErr
          /\ op.kind = "eof" /\ pos = Len(input) /\ heap = pre.heap
       \/ /\ ret.root = Nil /\ ret.err /= NoErr
  /\ pc = "loop" => ret = NoReturn
  /\ (pc = "returned" /\ op.kind \in {"header", "kv", "syntax"}) =>
       /\ ret.err /= NoErr
       /\ pre.pos < pos

\* an error returned with lines left unread, after the failing line itself
\* had added a Table to the tree
C9_Witness ==
  /\ pc = "returned"
  /\ ret.err /= NoErr
  /\ pos < Len(input)
  /\ Len(heap) > Len(pre.heap)

\* the physical line the step taken last began with, as Parse trims it
StepLine == TrimSpace(input[pre.pos + 1])

\* the value text after '=' on that line
StepValue == TrimSpace(Slice(StepLine, findUnquotedEqual(StepLine) + 1, Len(StepLine)))

\* the step taken last was a key/value line whose value text was consumed
ValueConsumed ==
  /\ op.kind = "kv"
  /\ op.t /= Nil
  /\ pc = "returned" => ret.err.msg \notin {"already defined and is not a table", "duplicate key"}

\* the value text opens a string with delimiter d and does not close it
OpensTriple(val, d) ==
  /\ HasPrefix(TrimSpace(stripCommentPreserveStrings(val)), d)
  /\ ~Contains(Slice(TrimSpace(stripCommentPreserveStrings(val)), 3,
                     Len(TrimSpace(stripCommentPreserveStrings(val)))), d)

\* the depth and quote state after the value text and j following lines
RECURSIVE DepthAfter(_, _, _)
DepthAfter(val, p, j) ==
  IF j = 0 THEN depthScan(val, 0, [depth |-> 0, q |-> NoQuote])
  ELSE depthScan(input[p + j], 0, DepthAfter(val, p, j - 1))

\* the value text opens an array or an inline table and leaves it open
OpensCompound(val) ==
  /\ ~OpensTriple(val, DQ3) /\ ~OpensTriple(val, SQ3)
  /\ \/ HasPrefix(TrimSpace(stripCommentPreserveStrings(val)), <<"[">>)
     \/ HasPrefix(TrimSpace(stripCommentPreserveStrings(val)), <<"{">>)
  /\ DepthAfter(val, pre.pos + 1, 0).depth > 0

\* the value text followed by the next k physical lines, a newline before each
RECURSIVE Joined(_, _, _)
Joined(val, p, k) ==
  IF k = 0 THEN val ELSE Joined(val, p, k - 1) \o <<NL>> \o input[p + k]

\* the j-th line after the one the step began with closes the value
ClosesAt(j) ==
  IF OpensCompound(StepValue) THEN DepthAfter(StepValue, pre.pos + 1, j).depth <= 0
  ELSE IF OpensTriple(StepValue, DQ3) THEN Contains(input[pre.pos + 1 + j], DQ3)
  ELSE Contains(input[pre.pos + 1 + j], SQ3)

Unterminated ==
  IF OpensCompound(StepValue) THEN "unterminated compound value"
  ELSE IF OpensTriple(StepValue, DQ3) THEN "unterminated multiline string"
  ELSE "unterminated multiline literal string"

LinesLeft == Len(input) - pre.pos - 1

\* C10: when the value text opens a triple-quoted string it does not close, or
\* an array or inline table whose depth is still positive at the end of the
\* line, the step reads the following physical lines up to the first one that
\* closes the value, the value consumed is the value text followed by those
\* lines, each after a newline, and none of them is read as a line of its own;
\* when no line closes the value, all the input is read and Parse returns the
\* unterminated error.  Any other value text takes no further line.
C10_ContinuationLines ==
  ValueConsumed =>
    IF OpensTriple(StepValue, DQ3) \/ OpensTriple(StepValue, SQ3) \/ OpensCompound(StepValue)
    THEN \/ /\ \A j \in 1..LinesLeft : ~ClosesAt(j)
            /\ pos = Len(input)
            /\ pc = "returned" /\ ret.root = Nil
            /\ ret.err.msg = Unterminated
         \/ \E k \in 1..LinesLeft :
              /\ ClosesAt(k)
              /\ \A j \in 1..(k - 1) : ~ClosesAt(j)
              /\ pos = pre.pos + 1 + k
              /\ lineNo = pre.lineNo + 1 + k
              /\ op.full = Joined(StepValue, pre.pos + 1, k)
              /\ pc = "returned" => ret.err.msg /= Unterminated
              /\ pc = "loop" =>
                   /\ op.id > Len(pre.heap)
                   /\ heap[op.t].items[op.parts[Len(op.parts)]] = op.id
    ELSE pos = pre.pos + 1

\* an array closed on the second line after the one that opened it, and bound
C10_Witness ==
  /\ KvApplied
  /\ OpensCompound(StepValue)
  /\ pos = pre.pos + 3
  /\ Contains(op.full, <<NL>>)

\* the key expression of the key/value line the step taken last read
StepKey == TrimSpace(Slice(StepLine, 0, findUnquotedEqual(StepLine)))

\* the key expression of the array-of-tables header the step taken last read
StepHeaderName ==
  TrimSpace(Slice(TrimSpace(stripCommentPreserveStrings(StepLine)), 2,
                  Len(TrimSpace(stripCommentPreserveStrings(StepLine))) - 2))

\* parseKeyParts gives no error and yet no segment
NoSegment(key) == parseKeyParts(key).err = "" /\ Len(parseKeyParts(key).parts) = 0

\* C11: a key expression parseKeyParts accepts has at least one segment, for
\* the key of a key/value line and for the name of an array-of-tables header,
\* so that the step always has a last segment and does not panic.
C11_KeyHasSegment ==
  /\ op.kind = "kv" => ~NoSegment(StepKey)
  /\ (op.kind = "header" /\ HasPrefix(StepLine, <<"[", "[">>) /\ HasSuffix(StepLine, <<"]", "]">>))
       => ~NoSegment(StepHeaderName)
  /\ op.kind \in {"kv", "header"} => pc /= "panicked"

\* the key expression is one pair of quotes around text, not empty, without
\* quotes and without backslashes
QuotedOnly(key) ==
  /\ Len(key) >= 3
  /\ key[1] \in {DQ, SQ}
  /\ key[Len(key)] = key[1]
  /\ \A i \in 2..(Len(key) - 1) : key[i] \notin {DQ, SQ, BS}

\* the text between the quotes
QuotedContent(key) == SubSeq(key, 2, Len(key) - 1)

\* C12: the content between a pair of quotes becomes one segment verbatim,
\* dots and leading or trailing spaces included, and the value of the line is
\* bound under that one segment in the cursor Table, where Get finds it.
C12_QuotedSegmentVerbatim ==
  /\ (op.kind = "kv" /\ QuotedOnly(StepKey)) =>
       parseKeyParts(StepKey) = [err |-> "", parts |-> <<QuotedContent(StepKey)>>]
  /\ (KvApplied /\ QuotedOnly(StepKey)) =>
       Get(heap, cur, <<QuotedContent(StepKey)>>) = [node |-> op.id, ok |-> TRUE]

(***************************************************************************)
(* The mathematical value of an integer literal: a sign and a magnitude,   *)
(* the magnitude a sequence of limbs of any length, least significant      *)
(* first, without a zero limb at the top.                                  *)
(***************************************************************************)
\* mag * base + d, with as many limbs as the value needs
RECURSIVE RefMulAdd(_, _, _)
RefMulAdd(mag, base, d) ==
  IF mag = <<>> THEN (IF d = 0 THEN <<>> ELSE <<d>>)
  ELSE <<(Head(mag) * base + d) % LimbBase>>
         \o RefMulAdd(Tail(mag), base, (Head(mag) * base + d) \div LimbBase)

RECURSIVE RefMagnitude(_, _, _)
RefMagnitude(digits, base, mag) ==
  IF digits = <<>> THEN mag
  ELSE RefMagnitude(Tail(digits), base, RefMulAdd(mag, base, DigitVal(Head(digits))))

RefUnsigned(s) == IF s /= <<>> /\ Head(s) \in {"-", "+"} THEN Tail(s) ELSE s

RefBase(s) ==
  IF HasPrefix(RefUnsigned(s), <<"0", "x">>) THEN 16
  ELSE IF HasPrefix(RefUnsigned(s), <<"0", "o">>) THEN 8
  ELSE IF HasPrefix(RefUnsigned(s), <<"0", "b">>) THEN 2
  ELSE 10

RefDigits(s) == IF RefBase(s) = 10 THEN RefUnsigned(s) ELSE Tail(Tail(RefUnsigned(s)))

\* the value of the literal lit, underscores ignored
LiteralValue(lit) ==
  [neg |-> HasPrefix(lit, <<"-">>),
   mag |-> RefMagnitude(RefDigits(RemoveAll(lit, "_")), RefBase(RemoveAll(lit, "_")), <<>>)]

\* a + b over limbs of equal number, from the least significant on; the
\* result is the limbs of the sum followed by the carry out of the top
RECURSIVE RefSum(_, _, _)
RefSum(a, b, carry) ==
  IF a = <<>> THEN <<carry>>
  ELSE <<(Head(a) + Head(b) + carry) % LimbBase>>
         \o RefSum(Tail(a), Tail(b), (Head(a) + Head(b) + carry) \div LimbBase)

\* mag on NumLimbs limbs
Padded(mag) == [i \in 1..NumLimbs |-> IF i <= Len(mag) THEN mag[i] ELSE 0]

\* the int64 with bit pattern p is the integer val: a pattern with the top
\* bit clear is its own magnitude, one with the top bit set is 2^64 less the
\* magnitude
Represents(p, val) ==
  /\ Len(val.mag) <= NumLimbs
  /\ IF val.neg /\ val.mag /= <<>>
       THEN /\ p[NumLimbs] >= LimbBase \div 2
            /\ RefSum(p, Padded(val.mag), 0) = Zero64 \o <<1>>
       ELSE /\ p[NumLimbs] < LimbBase \div 2
            /\ p = Padded(val.mag)

\* the step taken last bound an integer
IntBound == KvApplied /\ heap[op.id].kind = "Value" /\ heap[op.id].type = "int"

\* C13: the integer bound for a literal is the value the literal spells:
\* underscores ignored, an optional sign, base 16, 8 or 2 after 0x, 0o or 0b
\* and base 10 otherwise; a literal beyond the int64 range is not bound as an
\* integer of another value.
C13_IntegerValue ==
  IntBound => Represents(heap[op.id].v, LiteralValue(TrimSpace(stripCommentPreserveStrings(op.full))))

(***************************************************************************)
(* The quoted regions of a text, read off the text alone: for each         *)
(* character, whether it lies outside every quoted region.  A region is    *)
(* opened by a quote or by three quotes in a row, and closed by the same;  *)
(* in a basic region a backslash takes the character after it with it.     *)
(***************************************************************************)
ThreeAt(s, i, c) == i + 2 <= Len(s) /\ s[i] = c /\ s[i + 1] = c /\ s[i + 2] = c

RECURSIVE Outside(_, _, _)
Outside(s, i, region) ==
  IF i > Len(s) THEN <<>>
  ELSE IF region = "none" THEN
    IF ThreeAt(s, i, DQ) THEN <<FALSE, FALSE, FALSE>> \o Outside(s, i + 3, "multi-basic")
    ELSE IF ThreeAt(s, i, SQ) THEN <<FALSE, FALSE, FALSE>> \o Outside(s, i + 3, "multi-literal")
    ELSE IF s[i] = DQ THEN <<FALSE>> \o Outside(s, i + 1, "basic")
    ELSE IF s[i] = SQ THEN <<FALSE>> \o Outside(s, i + 1, "literal")
    ELSE <<TRUE>> \o Outside(s, i + 1, "none")
  ELSE IF region \in {"basic", "multi-basic"} /\ s[i] = BS /\ i < Len(s)
    THEN <<FALSE, FALSE>> \o Outside(s, i + 2, region)
  ELSE IF region = "basic" /\ s[i] = DQ THEN <<FALSE>> \o Outside(s, i + 1, "none")
  ELSE IF region = "literal" /\ s[i] = SQ THEN <<FALSE>> \o Outside(s, i + 1, "none")
  ELSE IF region = "multi-basic" /\ ThreeAt(s, i, DQ)
    THEN <<FALSE, FALSE, FALSE>> \o Outside(s, i + 3, "none")
  ELSE IF region = "multi-literal" /\ ThreeAt(s, i, SQ)
    THEN <<FALSE, FALSE, FALSE>> \o Outside(s, i + 3, "none")
  ELSE <<FALSE>> \o Outside(s, i + 1, region)

\* the positions of character c outside every quoted region of s
Unquoted(s, c) == {i \in 1..Len(s) : s[i] = c /\ Outside(s, 1, "none")[i]}

\* out is s cut before its first '#' outside every quoted region, or all of s
\* when there is none
CutAtComment(s, out) ==
  IF Unquoted(s, "#") = {} THEN out = s
  ELSE out = SubSeq(s, 1, SetMin(Unquoted(s, "#")) - 1)

\* C14: stripCommentPreserveStrings gives its input unchanged up to the first
\* '#' outside every quoted region and nothing from that '#' on; quoted
\* content, a '#' in it included, is passed through.  It is stated of the
\* texts the parser applies it to: header lines, the value text after '=' and
\* the value text consumeValue returns.
C14_CommentStripping ==
  /\ op.kind = "header" => CutAtComment(StepLine, stripCommentPreserveStrings(StepLine))
  /\ ValueConsumed =>
       /\ CutAtComment(StepValue, stripCommentPreserveStrings(StepValue))
       /\ CutAtComment(op.full, stripCommentPreserveStrings(op.full))

\* a value bound with a '#' kept inside its quotes and a comment cut after it
C14_Witness ==
  /\ KvApplied
  /\ Len(stripCommentPreserveStrings(op.full)) < Len(op.full)
  /\ Contains(stripCommentPreserveStrings(op.full), <<"#">>)

\* C15: a line that is no header is split at its first '=' outside every
\* quoted region: the key is what stands before it; a line without such an
\* '=' makes Parse return the invalid syntax error of that line and leaves
\* the tree as it was.
C15_SplitAtUnquotedEqual ==
  /\ op.kind = "kv" =>
       /\ Unquoted(StepLine, "=") /= {}
       /\ findUnquotedEqual(StepLine) + 1 = SetMin(Unquoted(StepLine, "="))
       /\ parseKeyParts(TrimSpace(SubSeq(StepLine, 1, SetMin(Unquoted(StepLine, "=")) - 1))).err = ""
            => op.parts = parseKeyParts(TrimSpace(SubSeq(StepLine, 1, SetMin(Unquoted(StepLine, "=")) - 1))).parts
  /\ op.kind = "syntax" =>
       /\ Unquoted(StepLine, "=") = {}
       /\ findUnquotedEqual(StepLine) < 0
       /\ Returned(errf(pre.pos + 1, "invalid syntax", <<>>))
       /\ heap = pre.heap

\* a key/value line bound whose key holds an '=' inside quotes
C15_Witness ==
  /\ KvApplied
  /\ \E i \in 1..findUnquotedEqual(StepLine) : StepLine[i] = "="

(***************************************************************************)
(* The tree below a node of the heap, in the form parseValue gives its     *)
(* result: items and elems hold the nodes themselves.                      *)
(***************************************************************************)
RECURSIVE Tree(_, _)
Tree(h, id) ==
  IF h[id].kind = "Table"
    THEN [h[id] EXCEPT !.items = [k \in DOMAIN h[id].items |-> Tree(h, h[id].items[k])]]
  ELSE IF h[id].kind = "Array"
    THEN [h[id] EXCEPT !.elems = [i \in 1..Len(h[id].elems) |-> Tree(h, h[id].elems[i])]]
  ELSE h[id]

\* the pairs of an inline table read one after the other as the key/value
\* lines of a document whose root is a fresh Table: the heap they build, the
\* message of the first error, and whether the parser panicked
RECURSIVE AsLines(_, _, _)
RECURSIVE AsLinesAfter(_, _, _)
AsLines(pairs, i, h) ==
  IF i > Len(pairs) THEN [heap |-> h, err |-> "", panic |-> FALSE]
  ELSE IF TrimSpace(pairs[i]) = <<>> THEN AsLines(pairs, i + 1, h)
  ELSE IF findUnquotedEqual(TrimSpace(pairs[i])) < 0
    THEN [heap |-> h, err |-> "invalid syntax", panic |-> FALSE]
  ELSE AsLinesAfter(pairs, i, parseKeyValue(h, 1, 1, TrimSpace(pairs[i]),
                                            findUnquotedEqual(TrimSpace(pairs[i])), <<>>, 0))

AsLinesAfter(pairs, i, r) ==
  IF r.panic THEN [heap |-> r.heap, err |-> "panic", panic |-> TRUE]
  ELSE IF r.err /= NoErr THEN [heap |-> r.heap, err |-> r.err.msg, panic |-> FALSE]
  ELSE AsLines(pairs, i + 1, r.heap)

\* the value text the step taken last consumed, as parseValue trims it
ValueText == TrimSpace(stripCommentPreserveStrings(op.full))

\* the step taken last consumed an inline table
InlineConsumed ==
  /\ ValueConsumed
  /\ HasPrefix(ValueText, <<"{">>) /\ HasSuffix(ValueText, <<"}">>)

\* the pairs between the braces
PairsOf(text) == splitTopLevel(TrimSpace(SubSeq(text, 2, Len(text) - 1)))

\* the inline table gives what its pairs give as lines: the same tree, or an
\* error of the same kind
SameAsLines(r, top) ==
  /\ r.panic = top.panic
  /\ (r.err = "") = (top.err = "")
  /\ r.err = "" => r.node = Tree(top.heap, 1)
  /\ (r.err = "duplicate inline table key") = (top.err = "duplicate key")
  /\ (r.err = "inline table path conflict") = (top.err = "already defined and is not a table")

\* C16: an inline table is decoded into a fresh Table by the rules of the
\* key/value lines of a document: it is the tree its pairs build when read as
\* lines, with missing Tables created along dotted keys, and it fails with
\* the duplicate-key or path-conflict error exactly when they do; what
\* the step binds or returns is that result.  The table of the tests binds
\* owner.name to the string Tom and owner.dob to an offset date-time.
C16_InlineTableAsBindings ==
  /\ InlineConsumed =>
       /\ SameAsLines(parseInlineTableToken(ValueText), AsLines(PairsOf(ValueText), 1, <<NewTable>>))
       /\ pc = "loop" => Tree(heap, op.id) = parseInlineTableToken(ValueText).node
       /\ pc = "returned" => ret.err.msg = parseInlineTableToken(ValueText).err
       /\ (pc = "panicked") = parseInlineTableToken(ValueText).panic
  /\ (KvApplied /\ input[pre.pos + 1] = LineOwner) =>
       /\ Get(heap, cur, <<op.parts[1], <<"n", "a", "m", "e">>>>).ok
       /\ Tree(heap, Get(heap, cur, <<op.parts[1], <<"n", "a", "m", "e">>>>).node)
            = NewValue("string", <<"T", "o", "m">>)
       /\ Get(heap, cur, <<op.parts[1], <<"d", "o", "b">>>>).ok
       /\ heap[Get(heap, cur, <<op.parts[1], <<"d", "o", "b">>>>).node].type = "datetime"

\* an inline table bound whose dotted keys share a Table created for the first
C16_Witness ==
  /\ KvApplied
  /\ InlineConsumed
  /\ input[pre.pos + 1] = LineInlineDotted
  /\ Cardinality(DOMAIN heap[op.id].items) = 1

(***************************************************************************)
(* The text between the delimiters of a multi-line basic string, read off  *)
(* the physical lines of the input as the scanner delivers them.           *)
(***************************************************************************)
\* the physical line the step began with, from behind the opening delimiter
RawAfterOpen ==
  Slice(input[pre.pos + 1], Index(input[pre.pos + 1], DQ3) + 3, Len(input[pre.pos + 1]))

\* that text and every physical line after it, joined by newlines
RawText == Joined(RawAfterOpen, pre.pos + 1, LinesLeft)

\* the text up to the closing delimiter
Between == Slice(RawText, 0, Index(RawText, DQ3))

\* s without the spaces and tabs it begins with
RECURSIVE DropBlanks(_)
DropBlanks(s) ==
  IF s /= <<>> /\ Head(s) \in {" ", TAB} THEN DropBlanks(Tail(s)) ELSE s

\* s where a backslash directly before a newline takes the newline and the
\* spaces and tabs after it away
RECURSIVE Folded(_)
Folded(s) ==
  IF s = <<>> THEN <<>>
  ELSE IF Len(s) >= 2 /\ s[1] = BS /\ s[2] = NL THEN Folded(DropBlanks(Tail(Tail(s))))
  ELSE <<Head(s)>> \o Folded(Tail(s))

\* the text the string decodes to when no escape is left after folding
Decoded == Folded(IF Between /= <<>> /\ Head(Between) = NL THEN Tail(Between) ELSE Between)

\* the step consumed a basic string that is closed on a later physical line
SpansLines ==
  /\ ValueConsumed
  /\ HasPrefix(StepValue, DQ3)
  /\ Index(RawText, DQ3) >= 0
  /\ Contains(Between, <<NL>>)

\* C17: a triple-quoted basic string that spans physical lines, with no
\* escape other than a backslash before a newline, is bound as the string of
\* the text between the delimiters, the lines joined by newlines, one
\* newline directly after the opening delimiter dropped, and a backslash
\* directly before a newline removed with the newline and the spaces and
\* tabs after it.
C17_MultilineBasicString ==
  (SpansLines /\ ~Contains(Decoded, <<BS>>)) =>
    /\ pc = "loop"
    /\ heap[op.id] = NewValue("string", Decoded)

(***************************************************************************)
(* The walk along a path, segment by segment: every node walked through is *)
(* a Table and every segment is bound in it.                               *)
(***************************************************************************)
\* the segments of the paths looked up: three keys and the empty string
PathSegments == {<<"a">>, <<"b">>, <<"p", "o", "r", "t", "s">>, <<>>}

Paths == UNION {[1..n -> PathSegments] : n \in 0..MaxPath}

RECURSIVE Walk(_, _, _)
Walk(h, n, path) ==
  IF path = <<>> THEN [node |-> n, ok |-> TRUE]
  ELSE IF h[n].kind = "Table" /\ Head(path) \in DOMAIN h[n].items
    THEN Walk(h, h[n].items[Head(path)], Tail(path))
    ELSE [node |-> Nil, ok |-> FALSE]

\* C18: on the tree Parse returned, Get(root, segments...) is the node the
\* walk from the root through the segments in order arrives at, with true,
\* when every node walked through is a Table and every segment is bound in
\* it, and (nil, false) when an intermediate node is not a Table or a
\* segment is unbound.
C18_GetWalksSegments ==
  (pc = "returned" /\ ret.root /= Nil) =>
    \A path \in Paths : Get(heap, ret.root, path) = Walk(heap, ret.root, path)

(***************************************************************************)
(* Parse as a function of the lines the scanner delivers and of whether    *)
(* reading fails at their end: the run is folded over the lines, a step    *)
(* for each line Parse dispatches on, and ends in a tree, an error or a    *)
(* panic.  Trees are compared by structure, not by the identity of nodes.  *)
(***************************************************************************)
RunEnd(kind, st, e) == [kind |-> kind, err |-> e, tree |-> IF kind = "tree" THEN Tree(st.heap, st.root) ELSE <<>>]

RunHeader(st, r) ==
  IF r.panic THEN [st EXCEPT !.done = TRUE, !.end = RunEnd("panic", st, NoErr)]
  ELSE IF r.err /= NoErr THEN [st EXCEPT !.done = TRUE, !.end = RunEnd("error", st, r.err)]
  ELSE [st EXCEPT !.heap = r.heap, !.cur = r.cur, !.pos = @ + 1, !.lineNo = @ + 1]

RunKeyValue(st, r) ==
  IF r.panic THEN [st EXCEPT !.done = TRUE, !.end = RunEnd("panic", st, NoErr)]
  ELSE IF r.err /= NoErr THEN [st EXCEPT !.done = TRUE, !.end = RunEnd("error", st, r.err)]
  ELSE [st EXCEPT !.heap = r.heap, !.pos = @ + 1 + r.n, !.lineNo = @ + 1 + r.n]

RunLine(inp, st, line) ==
  IF line = <<>> \/ HasPrefix(line, <<"#">>) THEN [st EXCEPT !.pos = @ + 1, !.lineNo = @ + 1]
  ELSE IF HasPrefix(line, <<"[">>)
    THEN RunHeader(st, parseTableHeader(st.heap, st.root, st.cur, st.lineNo + 1, line))
  ELSE IF findUnquotedEqual(line) < 0
    THEN [st EXCEPT !.done = TRUE,
                    !.end = RunEnd("error", st, errf(st.lineNo + 1, "invalid syntax", <<>>))]
  ELSE RunKeyValue(st, parseKeyValue(st.heap, st.cur, st.lineNo + 1, line,
                                     findUnquotedEqual(line), inp, st.pos + 1))

RECURSIVE RunFrom(_, _, _)
RunFrom(inp, st, fails) ==
  IF st.done THEN st.end
  ELSE IF st.pos >= Len(inp)
    THEN IF fails THEN RunEnd("error", st, ScannerErr) ELSE RunEnd("tree", st, NoErr)
  ELSE RunFrom(inp, RunLine(inp, st, TrimSpace(inp[st.pos + 1])), fails)

ParseRun(inp, fails) ==
  RunFrom(inp, [heap |-> <<NewTable>>, root |-> 1, cur |-> 1, lineNo |-> 0, pos |-> 0,
                done |-> FALSE, end |-> RunEnd("none", <<>>, NoErr)], fails)

\* Parse has ended
Ended == pc \in {"returned", "panicked"}

\* the outcome of the run that ended: the error, the tree, or the panic
Outcome ==
  IF pc = "panicked" THEN [kind |-> "panic", err |-> NoErr, tree |-> <<>>]
  ELSE IF ret.root = Nil THEN [kind |-> "error", err |-> ret.err, tree |-> <<>>]
  ELSE [kind |-> "tree", err |-> ret.err, tree |-> Tree(heap, ret.root)]

RECURSIVE StructureKept(_, _, _)
StructureKept(h, id, g) ==
  IF h[id].kind = "Value" THEN g.any = "scalar" /\ g.val = h[id].v
  ELSE IF h[id].kind = "Array" THEN
    /\ g.any = "seq"
    /\ Len(g.val) = Len(h[id].elems)
    /\ \A i \in 1..Len(h[id].elems) : StructureKept(h, h[id].elems[i], g.val[i])
  ELSE
    /\ g.any = "map"
    /\ DOMAIN g.val = DOMAIN h[id].items
    /\ \A k \in DOMAIN h[id].items : StructureKept(h, h[id].items[k], g.val[k])

\* C20: on the tree Parse returned, ToUntyped of a node is the payload of a
\* Value, for an Array a sequence of as many converted elements in the same
\* order, and for a Table a mapping with the same keys to the converted
\* children; GetUntyped(root, path...) finds something exactly when
\* Get(root, path...) does, and then gives ToUntyped of the node Get found.
C20_UntypedKeepsStructure ==
  (pc = "returned" /\ ret.root /= Nil) =>
    /\ StructureKept(heap, ret.root, ToUntyped(heap, ret.root))
    /\ \A path \in Paths :
         /\ GetUntyped(heap, ret.root, path).ok = Get(heap, ret.root, path).ok
         /\ IF Get(heap, ret.root, path).ok
              THEN /\ StructureKept(heap, Get(heap, ret.root, path).node,
                                    GetUntyped(heap, ret.root, path).val)
                   /\ GetUntyped(heap, ret.root, path).val =
                        ToUntyped(heap, Get(heap, ret.root, path).node)
              ELSE GetUntyped(heap, ret.root, path).val = NilAny

\* the document of TestMultilineArrayAndTrailingComma was parsed and
\* GetUntyped(root, "ports") is a sequence of two different integers
C20_Witness ==
  /\ pc = "returned" /\ ret.root /= Nil
  /\ input = <<LinePortsOpen, LinePort1, LinePort2, LineCloseArr>>
  /\ GetUntyped(heap, ret.root, <<<<"p", "o", "r", "t", "s">>>>).ok
  /\ GetUntyped(heap, ret.root, <<<<"p", "o", "r", "t", "s">>>>).val.any = "seq"
  /\ Len(GetUntyped(heap, ret.root, <<<<"p", "o", "r", "t", "s">>>>).val.val) = 2
  /\ GetUntyped(heap, ret.root, <<<<"p", "o", "r", "t", "s">>>>).val.val[1].val
       /= GetUntyped(heap, ret.root, <<<<"p", "o", "r", "t", "s">>>>).val.val[2].val

(***************************************************************************)
(* The escapes of a basic string, read off its content from left to right: *)
(* a backslash begins an escape unless the escape before it took it.       *)
(***************************************************************************)
HexDigits ==
  Digits \cup {"a", "b", "c", "d", "e", "f", "A", "B", "C", "D", "E", "F"}

SimpleEscapes == {"b", "t", "n", "f", "r", DQ, BS}

\* the characters the escape that begins at position i of s takes, or 0 when
\* it is not one of the supported escapes
EscapeLen(s, i) ==
  IF i = Len(s) THEN 0
  ELSE IF s[i + 1] \in SimpleEscapes THEN 2
  ELSE IF s[i + 1] = "u" /\ i + 5 <= Len(s) /\ (\A k \in (i + 2)..(i + 5) : s[k] \in HexDigits) THEN 6
  ELSE IF s[i + 1] = "U" /\ i + 9 <= Len(s) /\ (\A k \in (i + 2)..(i + 9) : s[k] \in HexDigits) THEN 10
  ELSE 0

\* an escape at or after position i of s is not a supported one
RECURSIVE BadEscapeFrom(_, _)
BadEscapeFrom(s, i) ==
  IF i > Len(s) THEN FALSE
  ELSE IF s[i] /= BS THEN BadEscapeFrom(s, i + 1)
  ELSE IF EscapeLen(s, i) = 0 THEN TRUE
  ELSE BadEscapeFrom(s, i + EscapeLen(s, i))

\* the number of characters the supported escapes of s decode to
RECURSIVE DecodedLen(_, _)
DecodedLen(s, i) ==
  IF i > Len(s) THEN 0
  ELSE IF s[i] /= BS THEN 1 + DecodedLen(s, i + 1)
  ELSE 1 + DecodedLen(s, i + EscapeLen(s, i))

\* the step consumed a value that is one basic string on one line, between
\* quotes or between triple quotes
BasicStringStep ==
  /\ ValueConsumed
  /\ pos = pre.pos + 1
  /\ Len(StepValue) >= 2
  /\ Head(StepValue) = DQ /\ StepValue[Len(StepValue)] = DQ
  /\ HasPrefix(StepValue, DQ3) =>
       /\ Len(StepValue) >= 6
       /\ Index(Slice(StepValue, 3, Len(StepValue)), DQ3) = Len(StepValue) - 6

\* the text between the quotes
BasicContent ==
  IF HasPrefix(StepValue, DQ3) THEN SubSeq(StepValue, 4, Len(StepValue) - 3)
  ELSE SubSeq(StepValue, 2, Len(StepValue) - 1)

\* C21: a basic string with an escape outside b, t, n, f, r, double quote,
\* backslash, u with four hex digits and U with eight, or with a unicode
\* escape cut short or holding a character that is no hex digit, makes
\* Parse return an error and binds nothing; a basic string whose escapes
\* are all supported is bound as a string with one character for each
\* escape.
C21_UnsupportedEscapeFails ==
  BasicStringStep =>
    IF BadEscapeFrom(BasicContent, 1)
      THEN /\ pc = "returned" /\ ret.root = Nil /\ ret.err /= NoErr
           /\ heap = pre.heap
      ELSE /\ pc = "loop"
           /\ heap[op.id].kind = "Value" /\ heap[op.id].type = "string"
           /\ Len(heap[op.id].v) = DecodedLen(BasicContent, 1)

\* an unknown escape after a plain character was refused
C21_Witness ==
  /\ BasicStringStep
  /\ input[pre.pos + 1] = LineEscQ
  /\ pc = "returned"
  /\ ret.err.msg = "unsupported escape"

\* the nodes of the tree Parse returned
ReturnedTree == pc = "returned" /\ ret.root /= Nil

\* C22: on every node of a returned tree MustString fails unless the node is
\* a Value with discriminant string, and MustInt fails unless it is a Value
\* with discriminant int: neither hands out a value for a Table, an Array or
\* a Value of another discriminant; when they do not fail they give the
\* payload.
C22_AccessorsFailOnMismatch ==
  ReturnedTree =>
    \A id \in 1..Len(heap) :
      /\ MustString(heap, id).panic = ~(heap[id].kind = "Value" /\ heap[id].type = "string")
      /\ MustInt(heap, id).panic = ~(heap[id].kind = "Value" /\ heap[id].type = "int")
      /\ ~MustString(heap, id).panic => MustString(heap, id).v = heap[id].v
      /\ ~MustInt(heap, id).panic => MustInt(heap, id).v = heap[id].v

\* the owner table was parsed: MustString gives the name, and fails on the
\* datetime and on the Table
C22_Witness ==
  /\ ReturnedTree
  /\ input = <<LineOwner>>
  /\ MustString(heap, Get(heap, ret.root, <<<<"o", "w", "n", "e", "r">>, <<"n", "a", "m", "e">>>>).node).v
       = <<"T", "o", "m">>
  /\ MustString(heap, Get(heap, ret.root, <<<<"o", "w", "n", "e", "r">>, <<"d", "o", "b">>>>).node).panic
  /\ MustInt(heap, Get(heap, ret.root, <<<<"o", "w", "n", "e", "r">>>>).node).panic

\* the cursor is where the header applied last put it: at the root before
\* any header, at the Table the path of a plain header leads to from the
\* root, or at the last element of the Array the path of an array-of-tables
\* header leads to
CursorPlace ==
  IF hdrs = <<>> THEN cur = root
  ELSE IF ~LastHeader.isArray
    THEN Get(heap, root, LastHeader.parts) = [node |-> cur, ok |-> TRUE]
  ELSE /\ Get(heap, root, LastHeader.parts).ok
       /\ heap[Get(heap, root, LastHeader.parts).node].kind = "Array"
       /\ heap[Get(heap, root, LastHeader.parts).node].elems /= <<>>
       /\ cur = heap[Get(heap, root, LastHeader.parts).node].elems[
                  Len(heap[Get(heap, root, LastHeader.parts).node].elems)]

\* C23: in every state the root is the Table created at the start, and the
\* cursor is a Table reached from the root along key segments and array
\* indices: the root itself, the Table on the path of the last plain
\* header, or the last element of the array of the last array-of-tables
\* header.
C23_RootFixedCursorReachable ==
  /\ root = 1 /\ pre.root = 1
  /\ ret.root \in {Nil, root}
  /\ heap[root].kind = "Table"
  /\ cur \in 1..Len(heap)
  /\ heap[cur].kind = "Table"
  /\ CursorPlace

\* a key/value line was bound in the second element of an array-of-tables
C23_Witness ==
  /\ KvApplied
  /\ hdrs /= <<>> /\ LastHeader.isArray
  /\ Len(heap[Get(heap, root, LastHeader.parts).node].elems) = 2
  /\ cur /= root
  /\ op.t = cur

\* the elements of the Arrays of the parser before the step, but for the
\* last element of each
EarlierElems ==
  UNION {{pre.heap[a].elems[i] : i \in 1..(Len(pre.heap[a].elems) - 1)} :
           a \in {n \in 1..Len(pre.heap) : pre.heap[n].kind = "Array"}}

\* C24: a step of the parse changes no element of an array-of-tables that
\* has an element after it: the Table has the same keys, bound to the same
\* values, after the step as before it.
C24_EarlierElementsFrozen ==
  \A e \in EarlierElems : Tree(heap, e) = Tree(pre.heap, e)

\* a key/value line was bound in the second element of an array-of-tables
\* whose first element holds a binding of its own
C24_Witness ==
  /\ KvApplied
  /\ hdrs /= <<>> /\ LastHeader.isArray
  /\ Len(heap[Get(heap, root, LastHeader.parts).node].elems) = 2
  /\ op.t = heap[Get(heap, root, LastHeader.parts).node].elems[2]
  /\ heap[Get(heap, root, LastHeader.parts).node].elems[1] \in EarlierElems
  /\ DOMAIN heap[heap[Get(heap, root, LastHeader.parts).node].elems[1]].items /= {}

(***************************************************************************)
(* The class of a physical line, read off its text.                        *)
(***************************************************************************)
\* the step taken last read a line and dispatched on it
LineStep == op.kind \in {"skip", "header", "kv", "syntax"}

\* the line is empty or its first non-blank character is '#'
BlankOrComment == StepLine = <<>> \/ Head(StepLine) = "#"

\* the line without its comment and the blanks around it
Stripped ==
  TrimSpace(IF Unquoted(StepLine, "#") = {} THEN StepLine
            ELSE SubSeq(StepLine, 1, SetMin(Unquoted(StepLine, "#")) - 1))

\* the stripped line begins with '[' and ends with ']'
BracketDelimited ==
  /\ Len(Stripped) >= 2
  /\ Head(Stripped) = "[" /\ Stripped[Len(Stripped)] = "]"

\* the closing brackets match the opening ones: ']]' after '[[', ']' after '['
ClosedAsOpened ==
  /\ BracketDelimited
  /\ SubSeq(Stripped, 1, 2) = <<"[", "[">> =>
       Len(Stripped) >= 3 /\ Stripped[Len(Stripped) - 1] = "]"

\* an empty line or a comment line changes neither the tree nor the cursor
SkippedUnchanged ==
  BlankOrComment => op.kind = "skip" /\ pc = "loop" /\ heap = pre.heap /\ cur = pre.cur

\* C25 as the spec states it: an empty line or a comment line changes
\* neither the tree nor the cursor; a line is processed as a table header
\* exactly when, stripped of its comment and trimmed, it is delimited by
\* brackets; every other line with an '=' outside quotes is processed as a
\* key/value line.
C25_LineClassification ==
  LineStep =>
    /\ SkippedUnchanged
    /\ ~BlankOrComment => ((op.kind = "header") = BracketDelimited)
    /\ (~BlankOrComment /\ ~BracketDelimited /\ Unquoted(StepLine, "=") /= {})
         => op.kind = "kv"

\* C25 as the code has it: an empty line or a comment line changes neither
\* the tree nor the cursor; a line is processed as a table header exactly
\* when its first non-blank character is '[', and the header is refused,
\* the tree unchanged, unless the line stripped of its comment and trimmed
\* ends with the brackets it began with; every other line with an '='
\* outside quotes is processed as a key/value line, and without one as a
\* syntax error.
C25_ClassifiedByFirstCharacter ==
  LineStep =>
    /\ SkippedUnchanged
    /\ ~BlankOrComment => ((op.kind = "header") = (Head(StepLine) = "["))
    /\ (op.kind = "header" /\ ~ClosedAsOpened) =>
         /\ pc = "returned" /\ ret.root = Nil
         /\ ret.err.msg \in {"invalid table header", "invalid array-of-table header"}
         /\ heap = pre.heap
    /\ (op.kind = "header" /\ ClosedAsOpened /\ pc = "returned") =>
         ret.err.msg \notin {"invalid table header", "invalid array-of-table header"}
    /\ (~BlankOrComment /\ Head(StepLine) /= "[") =>
         op.kind = (IF Unquoted(StepLine, "=") /= {} THEN "kv" ELSE "syntax")

\* a line that begins with a header and goes on with '= 1' was refused as a
\* header
C25_Witness ==
  /\ op.kind = "header"
  /\ input[pre.pos + 1] = LineHdrThenEq
  /\ pc = "returned"
  /\ ret.err.msg = "invalid table header"

\* C26: the scanner only moves forward and lineNo counts the physical lines
\* consumed: a step that reads a line begins at the first line not yet
\* consumed; a skipped line, a header and a line without '=' consume that
\* line alone, a key/value line consumes it and the continuation lines of
\* its value, which are joined to the value; the end of the input consumes
\* nothing.
C26_ScannerForward ==
  /\ lineNo = pos /\ pos <= Len(input)
  /\ pre.lineNo = pre.pos /\ pre.pos <= pos
  /\ LineStep => op.start = pre.pos + 1 /\ pos >= pre.pos + 1
  /\ op.kind \in {"skip", "header", "syntax"} => pos = pre.pos + 1
  /\ op.kind \in {"eof", "scanerr"} => pos = pre.pos /\ pos = Len(input)
  /\ (op.kind = "kv" /\ pos > pre.pos + 1) =>
       /\ ValueConsumed
       /\ \/ op.full = Joined(StepValue, pre.pos + 1, pos - pre.pos - 1)
          \/ pc = "returned" /\ ret.err.msg = Unterminated /\ pos = Len(input)

\* after an array that took two physical lines, the header on the third line
\* was read as line 3
C26_Witness ==
  /\ op.kind = "header" /\ pc = "loop"
  /\ op.start = 3 /\ lineNo = 3
  /\ input[1] = LineOpenArr /\ input[2] = LineClose2

\* C27: every error Parse returns carries the "toml:<line>:" prefix of errf
\* with a line number from 1 to the number of lines read, the error of the
\* line scanner after the read loop included.
C27_ErrorsCarryLine ==
  (pc = "returned" /\ ret.err /= NoErr) =>
    /\ ret.err.prefixed
    /\ ret.err.line \in 1..lineNo

\* C28: Parse never aborts with a run-time panic: every run ends with a
\* root Table or an error, also on a line with an empty key, on an empty
\* array-of-tables header and on an array reduced to a lone '['.
C28_NeverPanics == pc /= "panicked"

(***************************************************************************)
(* A value text without its comments: on each physical line, what stands   *)
(* from the first '#' outside quotes to the end of that line is left out.  *)
(***************************************************************************)
RECURSIVE WithoutComments(_, _, _)
WithoutComments(s, i, region) ==
  IF i > Len(s) THEN <<>>
  ELSE IF region = "comment" THEN
    IF s[i] = NL THEN <<NL>> \o WithoutComments(s, i + 1, "none")
    ELSE WithoutComments(s, i + 1, "comment")
  ELSE IF region = "none" /\ s[i] = "#" THEN WithoutComments(s, i + 1, "comment")
  ELSE IF region = "none" /\ s[i] \in {DQ, SQ} THEN <<s[i]>> \o WithoutComments(s, i + 1, s[i])
  ELSE IF region = DQ /\ s[i] = BS /\ i < Len(s)
    THEN <<s[i], s[i + 1]>> \o WithoutComments(s, i + 2, region)
  ELSE IF region = s[i] THEN <<s[i]>> \o WithoutComments(s, i + 1, "none")
  ELSE <<s[i]>> \o WithoutComments(s, i + 1, region)

\* the step consumed an array literal that spans physical lines
ArraySpansLines ==
  /\ ValueConsumed
  /\ Head(StepValue) = "["
  /\ pos > pre.pos + 1
  /\ Contains(op.full, <<NL>>)

\* C29: an array literal that spans physical lines is bound as the Array of
\* the text without its comments, each comment taken out up to the end of
\* its own line only: the elements on the lines after a commented line are
\* elements of the Array, in order.
C29_CommentEndsAtLineEnd ==
  (ArraySpansLines /\ parseValue(WithoutComments(op.full, 1, "none")).err = "") =>
    /\ pc = "loop"
    /\ Tree(heap, op.id) = parseValue(WithoutComments(op.full, 1, "none")).node

\* the depth and quote state after the value text and the j lines after it,
\* each without its comment
RECURSIVE CleanDepthAfter(_, _, _)
CleanDepthAfter(val, p, j) ==
  IF j = 0 THEN depthScan(WithoutComments(val, 1, "none"), 0, [depth |-> 0, q |-> NoQuote])
  ELSE depthScan(WithoutComments(input[p + j], 1, "none"), 0, CleanDepthAfter(val, p, j - 1))

\* the numbers of following lines after which the value without its comments
\* is closed
CleanClosings ==
  {k \in 0..LinesLeft : CleanDepthAfter(StepValue, pre.pos + 1, k).depth <= 0}

\* the step consumed a value that begins an array or an inline table
CompoundStep ==
  /\ ValueConsumed
  /\ WithoutComments(StepValue, 1, "none") /= <<>>
  /\ Head(StepValue) \in {"[", "{"}

\* C30: the physical lines consumeValue pulls into an array or inline table
\* are those it would pull were the comments of the lines absent: brackets
\* and quotes inside a comment change neither the depth nor the quote state.
C30_CommentsOutsideDepth ==
  CompoundStep =>
    IF CleanClosings = {}
      THEN pos = Len(input) /\ pc = "returned" /\ ret.err.msg = "unterminated compound value"
      ELSE /\ pos = pre.pos + 1 + SetMin(CleanClosings)
           /\ pc = "returned" => ret.err.msg /= "unterminated compound value"

\* the value text the step consumed, without its comments and outer blanks
CompoundText == TrimSpace(WithoutComments(op.full, 1, "none"))

\* the text is enclosed by open and its own closing bracket
DelimitedBy(text, open, close) ==
  /\ Len(text) >= 2
  /\ Head(text) = open
  /\ text[Len(text)] = close

\* the text is an array in '[' and ']' or an inline table in '{' and '}'
MatchingPair(text) ==
  DelimitedBy(text, "[", "]") \/ DelimitedBy(text, "{", "}")

\* C31: a value that opens with '[' is accepted as an Array only when its
\* last character is ']', and one that opens with '{' as a Table only when
\* its last character is '}': for a value closed by the other bracket, or
\* by none, Parse returns an error and binds nothing.
C31_MatchingDelimiters ==
  (CompoundStep /\ ~MatchingPair(CompoundText)) =>
    /\ pc = "returned"
    /\ ret.err /= NoErr

====
